---- MODULE Spec2Model ----
(***************************************************************************)
(* Octopus Energy Japan integration: the API client's token lifecycle and  *)
(* retry-once logic (api.py), the setup / refresh wrapper (__init__.py)    *)
(* and the presented values computed from the snapshot (sensor.py).        *)
(*                                                                         *)
(* Time is counted in minutes.  The code is single-threaded asyncio: a     *)
(* handler runs from one await to the next, so every action below is the   *)
(* code between two awaits, and the request awaited is held in `inflight`. *)
(***************************************************************************)
EXTENDS Integers, Sequences, FiniteSets, TLC

VARIABLES
    now,                 \* the wall clock, minutes
    ticks,               \* how many times the clock has advanced (bounded)
    token,               \* OctopusEnergyJpApiClient._token (NoToken = None)
    token_expiry,        \* OctopusEnergyJpApiClient._token_expiry (NoExpiry = None)
    issued,              \* provider side: tokens issued so far
    issuedAt,            \* clock value at the last successful authenticate
    phase,               \* where async_setup_entry / the coordinator stands
    inflight,            \* the request being awaited, NoRequest when none
    response,            \* the provider's latest answer to the current call
    pending,             \* that answer is on the wire, not yet handled
    attempt,             \* get_data's loop variable; 1 after get_account_number's retry
    authFrom,            \* the call site awaiting async_get_token
    first_resp,          \* the first response of the current call (`resp`)
    retry_cause,         \* the signal that made the current call retry, or "none"
    nAuth,               \* token requests sent by the current call
    nRetryAuth,          \* of those, the ones triggered by an expiry signal
    nReq,                \* authenticated requests sent by the current call
    account_number,      \* the closure variable of async_update_data (0 = unset)
    coordinator_created, \* DataUpdateCoordinator constructed with update_interval
    coordinator_data,    \* coordinator.data: a payload id, NoData = None
    last_refresh,        \* the coordinator's last refresh: "none", "ok" or "failed"
    sensors_created,     \* async_forward_entry_setups ran: the ten entities exist
    data_query_sent,     \* a comprehensive query has been sent at least once
    signals,             \* UpdateFailed raised in the current refresh cycle
    last_exc,            \* what the last finished call raised, "none" if it returned
    escaped,             \* an exception left async_update_data unmapped
    cooperative,         \* history: the provider has cooperated all through this call
    last_failure,        \* history: why the refresh before the last success, or
                         \* the last refresh if it failed, failed; "none" if it did not
    calc_op,             \* the getter or helper applied last, "idle" when none
    calc_in,             \* the arguments it was applied to
    calc_out,            \* what it returned
    attrs                \* _attr_extra_state_attributes of the two cost entities

vars == <<now, ticks, token, token_expiry, issued, issuedAt, phase, inflight,
          response, pending, attempt, authFrom, first_resp, retry_cause, nAuth,
          nRetryAuth, nReq,
          account_number, coordinator_created, coordinator_data,
          last_refresh, sensors_created, data_query_sent, signals,
          last_exc, escaped, cooperative, last_failure,
          calc_op, calc_in, calc_out, attrs>>

clientVars == <<token, token_expiry, issuedAt>>
callVars == <<inflight, pending, attempt, authFrom, first_resp, retry_cause,
              nAuth, nRetryAuth, nReq, data_query_sent>>
hostVars == <<phase, account_number, coordinator_created, coordinator_data,
              last_refresh, sensors_created, signals, last_exc, escaped,
              last_failure>>
calcVars == <<calc_op, calc_in, calc_out, attrs>>
mainVars == <<now, ticks, issued, response, cooperative, clientVars, callVars,
              hostVars>>

-----------------------------------------------------------------------------
(* Bounds of the model *)

MaxTicks == 3
MaxIssued == 2
\* the getters are applied to totals of up to this many blocks of 50 kWh
MaxKwhBlocks == 3
\* the consumption getters are applied to at most this many readings
MaxReadings == 3

(* Program constants *)

TOKEN_TTL == 50
HTTP_UNAUTHORIZED == 401
HTTP_ERROR_FLOOR == 400

NoToken == 0
NoExpiry == -1
NoData == 0

\* the body of a token response whose data.obtainKrakenToken.token is null
NullTokenBody == -1

\* The clock advances by a minute, or by 49 minutes while nothing is awaited,
\* so that 49, 50 and 51 minutes after an authenticate are all reached.
TickSteps == {1, 49}

-----------------------------------------------------------------------------
(* Requests and responses on the wire *)

NoRequest == [kind |-> "none", auth |-> NoToken, at |-> 0]

\* async_get_token posts without a headers argument.
AuthRequest(t) == [kind |-> "auth", auth |-> NoToken, at |-> t]

\* headers = {"authorization": f"JWT {self._token}"}
Request(kind, tok, t) == [kind |-> kind, auth |-> tok, at |-> t]

NoErrors == [has |-> FALSE, list |-> <<>>]
Errors(l) == [has |-> TRUE, list |-> l]

NoResponse == [net |-> "none", status |-> 0, errs |-> NoErrors, body |-> 0]

\* session.post or resp.json() raises aiohttp.ClientError.
NetError == [net |-> "err", status |-> 0, errs |-> NoErrors, body |-> 0]

Reply(status, errs, body) ==
    [net |-> "ok", status |-> status, errs |-> errs, body |-> body]

\* Entries of a GraphQL "errors" array: a message and extensions.errorCode.
ErrJwtMessage == [message |-> "JWT has expired", errorCode |-> ""]
ErrJwtSignature ==
    [message |-> "Signature of the JWT has expired", errorCode |-> ""]
ErrJwtCode == [message |-> "Unauthorized", errorCode |-> "KT-CT-1124"]
ErrLongCode == [message |-> "Unauthorized", errorCode |-> "KT-CT-11245"]
ErrOther == [message |-> "Account not found", errorCode |-> "KT-CT-4123"]

ErrorLists ==
    { <<>>, <<ErrOther>>, <<ErrJwtMessage>>, <<ErrJwtSignature>>, <<ErrJwtCode>>,
      <<ErrLongCode>>, <<ErrOther, ErrJwtCode>> }

\* "JWT has expired" in s, for the message strings above
ContainsJwtHasExpired(s) ==
    s \in {"JWT has expired", "Signature of the JWT has expired"}

\* "Signature of the JWT has expired" in s
ContainsSignatureExpired(s) == s = "Signature of the JWT has expired"

\* "KT-CT-1124" in s, for the error codes above
ContainsKtCt1124(s) == s \in {"KT-CT-1124", "KT-CT-11245"}

-----------------------------------------------------------------------------
(* The provider: what it may answer *)

\* Ids of the account subtrees the provider may return (Payload below gives
\* each one's JSON).  A partial payload is what GraphQL returns beside an
\* "errors" array: the fields that failed are null.
CompletePayloads == {1, 2, 3}
PartialPayloads == {4}

Statuses == {200, 401, 500}

\* The account numbers the provider may list first
AccountNumbers == {1}

\* body: the token issued (0: no data.obtainKrakenToken.token in the body,
\* NullTokenBody: the token is there and is null)
AuthReplies(fresh) ==
    { Reply(200, NoErrors, fresh),
      Reply(200, NoErrors, NullTokenBody),
      Reply(200, Errors(<<ErrOther>>), 0),
      Reply(HTTP_ERROR_FLOOR, Errors(<<ErrOther>>), 0),
      NetError }

\* body: the first account's number (0: no data.viewer.accounts[0].number)
AccountReplies ==
    { Reply(st, NoErrors, b) : st \in Statuses, b \in AccountNumbers \cup {0} }
      \cup { Reply(200, Errors(l), 0) : l \in ErrorLists }
      \cup { Reply(401, Errors(l), 0) : l \in {<<ErrOther>>, <<ErrJwtMessage>>} }
      \cup { NetError }

\* body: the payload id under data.account (0: no data.account in the body)
DataReplies ==
    { Reply(200, NoErrors, b) : b \in CompletePayloads \cup {0} }
      \cup { Reply(st, NoErrors, 0) : st \in {401, 500} }
      \cup { Reply(500, NoErrors, b) : b \in {1} }
      \cup { Reply(200, Errors(l), b) :
               l \in ErrorLists, b \in PartialPayloads \cup {0} }
      \cup { Reply(401, Errors(l), 0) : l \in {<<ErrOther>>, <<ErrJwtMessage>>} }
      \cup { NetError }

-----------------------------------------------------------------------------
(* api.py: OctopusEnergyJpApiClient *)

\* a token check that lets a token through at the very minute it expires
EnsureNeedsTokenLate(tok, exp, t) ==
    \/ tok = NoToken \/ exp = NoExpiry
    \/ t > exp

\* _ensure_valid_token: the two branches that call async_get_token
EnsureNeedsToken(tok, exp, t) ==
    \/ tok = NoToken \/ exp = NoExpiry
    \/ t >= exp

\* async_get_token: self._token = token_data["token"], a JSON null read as None
StoredToken(r) == IF r.body = NullTokenBody THEN NoToken ELSE r.body

\* async_get_token: the expiry stored beside a new token
NewExpiry(t) == t + TOKEN_TTL

\* async_get_token, after the await: "none" when it stores the token,
\* else the exception it raises
GetTokenRaises(r) ==
    IF r.net = "err" THEN "ClientError"
    ELSE IF r.status >= HTTP_ERROR_FLOOR THEN "ClientResponseError"
    ELSE IF r.body = 0 THEN "KeyError"
    ELSE "none"

\* a header that keeps the token read before the re-authentication
HeaderBeforeRefresh(old, new) == old

\* the header built after async_get_token returned at a retry site
HeaderAfterRefresh(old, new) == new

\* the expiry signal that sends the call back for a new token
Retry(cause) == [act |-> "reauth", exc |-> cause, val |-> 0]
Raise(e) == [act |-> "raise", exc |-> e, val |-> 0]
Return(v) == [act |-> "return", exc |-> "none", val |-> v]

\* an expiry test that matches the error code by substring, as
\* async_get_account_number does
IsJwtErrorDataLoose(e) ==
    \/ ContainsJwtHasExpired(e.message)
    \/ ContainsKtCt1124(e.errorCode)

\* async_get_data: the test applied to each entry of data["errors"]
IsJwtErrorData(e) ==
    \/ ContainsJwtHasExpired(e.message)
    \/ ContainsSignatureExpired(e.message)
    \/ e.errorCode = "KT-CT-1124"

HasJwtErrorData(l) == \E i \in 1..Len(l) : IsJwtErrorData(l[i])

\* a loop that retries on every attempt
MayRetryAlways(att) == TRUE

\* async_get_data: `attempt == 0` in both retry conditions
MayRetry(att) == att = 0

\* async_get_data: data["data"]["account"] after the loop
AccountSubtree(r) == IF r.body = 0 THEN Raise("KeyError") ELSE Return(r.body)

\* a loop body without the HTTP 401 branch
DataDecisionNo401(att, r) ==
    IF r.net = "err" THEN Raise("ClientError")
    ELSE IF r.errs.has
    THEN IF HasJwtErrorData(r.errs.list) /\ MayRetry(att) THEN Retry("jwt")
         ELSE Raise("Exception")
    ELSE IF r.status >= HTTP_ERROR_FLOOR THEN Raise("ClientResponseError")
    ELSE AccountSubtree(r)

\* a loop body that retries on HTTP 401 only, not on an expiry error in the body
DataDecisionNoJwtRetry(att, r) ==
    IF r.net = "err" THEN Raise("ClientError")
    ELSE IF r.errs.has THEN Raise("Exception")
    ELSE IF r.status = HTTP_UNAUTHORIZED /\ MayRetry(att) THEN Retry("401")
    ELSE IF r.status >= HTTP_ERROR_FLOOR THEN Raise("ClientResponseError")
    ELSE AccountSubtree(r)

\* a loop body that reads the data beside an errors array without an expiry
\* entry instead of raising
DataDecisionIgnoresErrors(att, r) ==
    IF r.net = "err" THEN Raise("ClientError")
    ELSE IF r.errs.has /\ HasJwtErrorData(r.errs.list)
    THEN IF MayRetry(att) THEN Retry("jwt") ELSE Raise("Exception")
    ELSE IF r.status = HTTP_UNAUTHORIZED /\ MayRetry(att) THEN Retry("401")
    ELSE IF r.status >= HTTP_ERROR_FLOOR THEN Raise("ClientResponseError")
    ELSE AccountSubtree(r)

\* async_get_data: the body of one loop iteration, after the await
DataDecision(att, r) ==
    IF r.net = "err" THEN Raise("ClientError")
    ELSE IF r.errs.has
    THEN IF HasJwtErrorData(r.errs.list) /\ MayRetry(att) THEN Retry("jwt")
         ELSE Raise("Exception")
    ELSE IF r.status = HTTP_UNAUTHORIZED /\ MayRetry(att) THEN Retry("401")
    ELSE IF r.status >= HTTP_ERROR_FLOOR THEN Raise("ClientResponseError")
    ELSE AccountSubtree(r)

\* async_get_account_number: the test applied to each entry of data["errors"]
IsJwtErrorAccount(e) ==
    \/ ContainsJwtHasExpired(e.message)
    \/ ContainsKtCt1124(e.errorCode)

HasJwtErrorAccount(l) == \E i \in 1..Len(l) : IsJwtErrorAccount(l[i])

\* async_get_account_number: the status test after the errors loop reads
\* `resp`, the first response, also when `data` holds the retry's body
AccountStatusChecked(first, last) == first.status

\* async_get_account_number: from the status test to the return
AccountResult(first, last) ==
    IF AccountStatusChecked(first, last) >= HTTP_ERROR_FLOOR
    THEN Raise("ClientResponseError")
    ELSE IF last.body = 0 THEN Raise("Exception")
    ELSE Return(last.body)

\* async_get_account_number: after the first response
AccountDecision(r) ==
    IF r.net = "err" THEN Raise("ClientError")
    ELSE IF r.errs.has /\ HasJwtErrorAccount(r.errs.list) THEN Retry("jwt")
    ELSE AccountResult(r, r)

\* async_get_account_number: after the retry's response (never retried)
AccountRetryDecision(first, r) ==
    IF r.net = "err" THEN Raise("ClientError")
    ELSE AccountResult(first, r)

-----------------------------------------------------------------------------
(* __init__.py: async_setup_entry and async_update_data, and the host's     *)
(* coordinator around them                                                  *)

IsClientError(e) == e \in {"ClientError", "ClientResponseError"}

\* subclasses of Exception among what the awaited calls raise
\* (asyncio's timeout() raises TimeoutError, a subclass of OSError)
IsException(e) ==
    e \in {"ClientError", "ClientResponseError", "KeyError", "Exception",
           "TimeoutError"}

\* an async_update_data with the `except aiohttp.ClientError` clause only
UpdateDataExceptClientOnly(e) ==
    IF IsClientError(e) THEN "UpdateFailed" ELSE e

\* async_update_data's two except clauses: what leaves the function
UpdateDataExcept(e) ==
    IF IsClientError(e) THEN "UpdateFailed"
    ELSE IF IsException(e) THEN "UpdateFailed"
    ELSE e

\* async_update_data: returns what async_get_data returned, raises otherwise
AsyncUpdateData(d) ==
    IF d.act = "return" THEN d ELSE Raise(UpdateDataExcept(d.exc))

\* a setup that goes on after a failed account-number call
SetupIgnoresFailure(d) == "first_refresh"

\* async_setup_entry: `except Exception: return False` around the account
\* number, else on to the coordinator and the first refresh
SetupAfterAccountNumber(d) ==
    IF d.act = "raise" THEN "aborted" ELSE "first_refresh"

\* The host's coordinator: a returned value replaces the snapshot wholesale,
\* an exception keeps the previous one.
CoordinatorData(outcome, old) ==
    IF outcome.act = "return" THEN outcome.val ELSE old

CoordinatorStatus(outcome) == IF outcome.act = "return" THEN "ok" ELSE "failed"

InRefresh == phase \in {"first_refresh", "refresh"}

CallKind == IF phase = "acct" THEN "acct" ELSE "data"

\* What the provider's answer says, in the provider's terms: expiry is a
\* bare HTTP 401 or a JWT-expiry entry in the errors array
SaysExpired(r) ==
    /\ r.net = "ok"
    /\ \/ r.status = 401 /\ ~r.errs.has
       \/ /\ r.errs.has
          /\ \E i \in 1..Len(r.errs.list) :
                \/ r.errs.list[i].message
                      \in {"JWT has expired", "Signature of the JWT has expired"}
                \/ r.errs.list[i].errorCode = "KT-CT-1124"

SaysSuccess(r) ==
    /\ r.net = "ok" /\ r.status = 200 /\ ~r.errs.has /\ r.body > 0

\* The provider cooperates when it issues a token on request, answers a query
\* that carries a token it has just issued, and either answers or signals
\* expiry for a query that carries an older token.
CooperativeReply(req, fresh, r) ==
    IF req.kind = "auth" THEN SaysSuccess(r)
    ELSE IF fresh THEN SaysSuccess(r)
    ELSE SaysSuccess(r) \/ SaysExpired(r)

\* Why a refresh failed, for the record of the last failure
FailureCause(req, att, r, e) ==
    IF e = "TimeoutError" THEN "timeout"
    ELSE IF req.kind = "auth" THEN "auth"
    ELSE IF att = 1 /\ SaysExpired(r) THEN "expiry"
    ELSE "other"

-----------------------------------------------------------------------------
\* the element of a one-element set: in { F(x) : x \in {e} } the name x stands
\* for the value of e, as a local variable stands for the value assigned to it
The(S) == CHOOSE x \in S : TRUE

-----------------------------------------------------------------------------
(* JSON values as Python sees them after resp.json() *)

JNull == [t |-> "null"]
JNum(n) == [t |-> "num", n |-> n]
JList(items) == [t |-> "list", items |-> items]
JObj(fields) == [t |-> "obj", fields |-> fields]

NoTimestamp == [iso |-> FALSE, y |-> 0, mo |-> 0, d |-> 0, h |-> 0, mi |-> 0, off |-> 0]

\* a string that is neither a numeral nor a timestamp
JText(s) == [t |-> "str", s |-> s, chars |-> <<>>, ts |-> NoTimestamp]

\* a string given by its characters (ASCII codes), as the numerals are
JChars(chars) == [t |-> "str", s |-> "", chars |-> chars, ts |-> NoTimestamp]

\* an ISO-8601 timestamp string with a UTC offset in minutes
JTimestamp(y, mo, d, h, mi, off) ==
    [t |-> "str", s |-> "", chars |-> <<>>,
     ts |-> [iso |-> TRUE, y |-> y, mo |-> mo, d |-> d, h |-> h, mi |-> mi,
             off |-> off]]

\* What an expression evaluates to: a JSON value, a number, or an exception
OkJ(v) == [ok |-> TRUE, v |-> v, n |-> 0, exc |-> "none"]
OkN(n) == [ok |-> TRUE, v |-> JNull, n |-> n, exc |-> "none"]
Err(e) == [ok |-> FALSE, v |-> JNull, n |-> 0, exc |-> e]

\* x[k] for a string key k
GetItem(x, k) ==
    IF x.t = "obj"
    THEN IF k \in DOMAIN x.fields THEN OkJ(x.fields[k]) ELSE Err("KeyError")
    ELSE Err("TypeError")

\* x[0]
First(x) ==
    CASE x.t = "list" -> IF Len(x.items) > 0 THEN OkJ(x.items[1])
                         ELSE Err("IndexError")
      [] x.t = "obj" -> Err("KeyError")
      [] x.t = "str" -> IF x.s = "" /\ x.chars = <<>> /\ ~x.ts.iso
                        THEN Err("IndexError") ELSE OkJ(JText("c"))
      [] OTHER -> Err("TypeError")

\* x.get(k)
DictGet(x, k) ==
    IF x.t = "obj"
    THEN IF k \in DOMAIN x.fields THEN OkJ(x.fields[k]) ELSE OkJ(JNull)
    ELSE Err("AttributeError")

\* x[p1][p2]...: a step is a key, or "[0]" for the index 0
RECURSIVE Lookup(_, _)
Lookup(x, path) ==
    IF path = <<>> THEN OkJ(x)
    ELSE The({ IF r.ok THEN Lookup(r.v, Tail(path)) ELSE r :
               r \in {IF Head(path) = "[0]" THEN First(x) ELSE GetItem(x, Head(path))} })

\* `not x`
Falsy(x) ==
    CASE x.t = "null" -> TRUE
      [] x.t = "num" -> x.n = 0
      [] x.t = "list" -> Len(x.items) = 0
      [] x.t = "obj" -> DOMAIN x.fields = {}
      [] x.t = "str" -> x.s = "" /\ x.chars = <<>> /\ ~x.ts.iso

\* what `for item in x` iterates over (a dict yields its keys, a string its
\* characters: one stands for all of them, they behave alike below)
Iterate(x) ==
    CASE x.t = "list" -> OkJ(x)
      [] x.t = "obj" -> OkJ(JList(IF DOMAIN x.fields = {} THEN <<>> ELSE <<JText("k")>>))
      [] x.t = "str" -> OkJ(JList(IF Falsy(x) THEN <<>> ELSE <<JText("c")>>))
      [] OTHER -> Err("TypeError")

-----------------------------------------------------------------------------
(* decimal.Decimal of a numeral, in hundredths *)

IsDigit(c) == c >= 48 /\ c <= 57

RECURSIVE DigitsValue(_, _)
DigitsValue(chars, acc) ==
    IF chars = <<>> THEN acc
    ELSE DigitsValue(Tail(chars), 10 * acc + (Head(chars) - 48))

DotPositions(chars) == {i \in 1..Len(chars) : chars[i] = 46}

\* Decimal("<digits>[.<digits>]") with at most two fraction digits; any other
\* string here is one Decimal rejects
ParseDecimal(chars) ==
    The({ LET dot == IF dots = {} THEN Len(chars) + 1 ELSE CHOOSE i \in dots : TRUE
              int == SubSeq(chars, 1, dot - 1)
              frac == SubSeq(chars, dot + 1, Len(chars))
              wellFormed ==
                  /\ Cardinality(dots) <= 1
                  /\ Len(int) + Len(frac) > 0
                  /\ Len(frac) <= 2
                  /\ \A i \in 1..Len(chars) : i \in dots \/ IsDigit(chars[i])
              scale == IF Len(frac) = 0 THEN 100 ELSE IF Len(frac) = 1 THEN 10 ELSE 1
          IN IF wellFormed
             THEN OkN(DigitsValue(int, 0) * 100 + DigitsValue(frac, 0) * scale)
             ELSE Err("InvalidOperation") :
          dots \in {DotPositions(chars)} })

\* decimal.Decimal(x)
ToDecimal(x) ==
    CASE x.t = "str" -> ParseDecimal(x.chars)
      [] x.t = "num" -> OkN(x.n * 100)
      [] OTHER -> Err("TypeError")

-----------------------------------------------------------------------------
(* Dates: days and minutes since 1970-01-01T00:00Z *)

TOKYO_OFFSET == 540

\* days from the civil date, proleptic Gregorian
DaysFromCivil(y, m, d) ==
    LET yy == IF m <= 2 THEN y - 1 ELSE y
        era == yy \div 400
        yoe == yy - era * 400
        mp == IF m > 2 THEN m - 3 ELSE m + 9
        doy == (153 * mp + 2) \div 5 + d - 1
        doe == yoe * 365 + yoe \div 4 - yoe \div 100 + doy
    IN era * 146097 + doe - 719468

\* the civil date of a day number
CivilFromDays(z0) ==
    LET z == z0 + 719468
        era == z \div 146097
        doe == z - era * 146097
    IN The({ The({ The({ The({ [y |-> yoe + era * 400 + (IF m <= 2 THEN 1 ELSE 0),
                                m |-> m,
                                d |-> doy - (153 * mp + 2) \div 5 + 1] :
                               m \in {IF mp < 10 THEN mp + 3 ELSE mp - 9} }) :
                         mp \in {(5 * doy + 2) \div 153} }) :
                   doy \in {doe - (365 * yoe + yoe \div 4 - yoe \div 100)} }) :
             yoe \in {(doe - doe \div 1460 + doe \div 36524 - doe \div 146096)
                          \div 365} })

UtcMinute(y, mo, d, h, mi) == (DaysFromCivil(y, mo, d) * 24 + h) * 60 + mi

\* datetime.fromisoformat(x): the instant, in UTC minutes
FromIsoFormat(x) ==
    IF x.t # "str" THEN Err("TypeError")
    ELSE IF ~x.ts.iso THEN Err("ValueError")
    ELSE OkN(UtcMinute(x.ts.y, x.ts.mo, x.ts.d, x.ts.h, x.ts.mi) - x.ts.off)

\* the date of the instant in UTC, without the conversion
UtcDate(utcMinute) == utcMinute \div 1440

\* .astimezone(tz).date(), as a day number
TokyoDate(utcMinute) == (utcMinute + TOKYO_OFFSET) \div 1440

\* today_date.replace(day=1)
FirstOfMonth(day) ==
    LET c == CivilFromDays(day) IN DaysFromCivil(c.y, c.m, 1)

\* calendar.monthrange(year, month)[1]
DaysInMonth(y, m) ==
    (IF m = 12 THEN DaysFromCivil(y + 1, 1, 1) ELSE DaysFromCivil(y, m + 1, 1))
        - DaysFromCivil(y, m, 1)

SameMonth(a, b) ==
    \E ca \in {CivilFromDays(a)}, cb \in {CivilFromDays(b)} :
        ca.y = cb.y /\ ca.m = cb.m

\* the test each consumption getter applies to a reading's Tokyo date
InPeriod(period, readingDate, today) ==
    CASE period = "today" -> readingDate = today
      [] period = "yesterday" -> readingDate = today - 1
      [] period = "current_month" -> SameMonth(readingDate, today)
      [] period = "last_month" -> SameMonth(readingDate, FirstOfMonth(today) - 1)

-----------------------------------------------------------------------------
(* sensor.py: what a native_value getter leaves with *)

ReturnsNone == [kind |-> "none", v |-> JNull, n |-> 0, exc |-> "none"]
ReturnsDecimal(n) == [kind |-> "decimal", v |-> JNull, n |-> n, exc |-> "none"]
ReturnsJson(v) ==
    IF v.t = "null" THEN ReturnsNone
    ELSE [kind |-> "json", v |-> v, n |-> 0, exc |-> "none"]
Raises(e) == [kind |-> "raise", v |-> JNull, n |-> 0, exc |-> e]

\* _attr_extra_state_attributes of the two cost entities before either has
\* stored anything; the amounts are in hundredths, as "{:.2f}" prints them
NoAttrs ==
    [current_month_cost |->
        [set |-> FALSE, total_kwh |-> 0, usage_cost |-> 0, standing_cost |-> 0,
         days_so_far |-> 0],
     monthly_estimate |->
        [set |-> FALSE, total_kwh_so_far |-> 0, daily_avg_kwh |-> 0,
         estimated_month_kwh |-> 0, estimated_usage_cost |-> 0,
         standing_cost |-> 0, days_so_far |-> 0, days_in_month |-> 0]]

\* except (KeyError, IndexError, TypeError)
LookupErrors == {"KeyError", "IndexError", "TypeError"}

\* except (KeyError, IndexError, TypeError, decimal.InvalidOperation)
CostErrors == LookupErrors \cup {"InvalidOperation"}

\* an exception leaving a try block: the handler's value, or the exception
Except(e, caught, handler) == IF e \in caught THEN handler ELSE Raises(e)

ReadingsPath ==
    <<"properties", "[0]", "electricitySupplyPoints", "[0]", "halfHourlyReadings">>

ProductPath ==
    <<"properties", "[0]", "electricitySupplyPoints", "[0]", "agreements", "[0]",
      "product">>

\* the loop over the readings: the sum of the values whose Tokyo date is in the
\* period, in hundredths of a kWh, or the first exception
RECURSIVE SumReadings(_, _, _, _)
SumReadings(items, period, today, total) ==
    IF items = <<>> THEN OkN(total)
    ELSE LET reading == Head(items)
             startAt == GetItem(reading, "startAt")
             value == GetItem(reading, "value")
         IN The({ IF ~start_at_utc.ok THEN start_at_utc
                  ELSE IF ~InPeriod(period, TokyoDate(start_at_utc.n), today)
                  THEN SumReadings(Tail(items), period, today, total)
                  ELSE IF ~amount.ok THEN amount
                  ELSE SumReadings(Tail(items), period, today, total + amount.n) :
                  start_at_utc \in
                      {IF startAt.ok THEN FromIsoFormat(startAt.v) ELSE startAt},
                  amount \in {IF value.ok THEN ToDecimal(value.v) ELSE value} })

\* all_readings = data[...]; for reading in all_readings: ...
PeriodTotal(data, period, today) ==
    The({ The({ IF ~it.ok THEN it ELSE SumReadings(it.v.items, period, today, 0) :
                it \in {IF all_readings.ok THEN Iterate(all_readings.v)
                        ELSE all_readings} }) :
          all_readings \in {Lookup(data, ReadingsPath)} })

\* the four consumption getters
ConsumptionValue(data, period, today) ==
    IF Falsy(data) THEN ReturnsNone
    ELSE The({ IF total.ok THEN ReturnsDecimal(total.n)
               ELSE Except(total.exc, LookupErrors, ReturnsNone) :
               total \in {PeriodTotal(data, period, today)} })

TodayConsumption(data, today) == ConsumptionValue(data, "today", today)
YesterdayConsumption(data, today) == ConsumptionValue(data, "yesterday", today)
CurrentMonthConsumption(data, today) == ConsumptionValue(data, "current_month", today)
LastMonthConsumption(data, today) == ConsumptionValue(data, "last_month", today)

-----------------------------------------------------------------------------
(* sensor.py: _calculate_cost_for_kwh *)

RECURSIVE LexLess(_, _)
LexLess(a, b) ==
    IF b = <<>> THEN FALSE
    ELSE IF a = <<>> THEN TRUE
    ELSE IF Head(a) # Head(b) THEN Head(a) < Head(b)
    ELSE LexLess(Tail(a), Tail(b))

\* a < b between two sort keys that Python can order: numbers by value,
\* strings by their characters
KeyLess(a, b) == IF a.t = "num" THEN a.n < b.n ELSE LexLess(a.chars, b.chars)

\* Python orders numbers with numbers and strings with strings; None, and a
\* number against a string, raise TypeError
Orderable(keys) ==
    \/ Len(keys) <= 1
    \/ \A i \in 1..Len(keys) : keys[i].t = "num"
    \/ \A i \in 1..Len(keys) : keys[i].t = "str"

\* a sort that leaves the steps in the order they arrived in
RECURSIVE InsertStepUnsorted(_, _)
InsertStepUnsorted(sorted, x) == Append(sorted, x)

\* insertion behind every element that is not greater: the sort is stable
RECURSIVE InsertStep(_, _)
InsertStep(sorted, x) ==
    IF sorted = <<>> THEN <<x>>
    ELSE IF KeyLess(x.fields["stepStart"], Head(sorted).fields["stepStart"])
    THEN <<x>> \o sorted
    ELSE <<Head(sorted)>> \o InsertStep(Tail(sorted), x)

RECURSIVE InsertionSort(_, _)
InsertionSort(items, sorted) ==
    IF items = <<>> THEN sorted
    ELSE InsertionSort(Tail(items), InsertStep(sorted, Head(items)))

\* sorted(consumption_steps, key=lambda x: x["stepStart"])
SortedSteps(consumption_steps) ==
    The({ IF ~it.ok THEN it
          ELSE The({ LET items == it.v.items
                         failed == {i \in 1..Len(items) : ~keys[i].ok}
                         first == CHOOSE i \in failed : \A j \in failed : i <= j
                     IN IF failed # {} THEN Err(keys[first].exc)
                        ELSE IF ~Orderable([i \in 1..Len(items) |-> keys[i].v])
                        THEN Err("TypeError")
                        ELSE OkJ(JList(InsertionSort(items, <<>>))) :
                     keys \in {[i \in 1..Len(it.v.items) |->
                                  GetItem(it.v.items[i], "stepStart")]} }) :
          it \in {Iterate(consumption_steps)} })

\* a minimum that always takes what remains, whatever the step's width
MinTakesAll(a, b) == a

Min(a, b) == IF a <= b THEN a ELSE b

\* the loop over the sorted steps.  Energy is counted in hundredths of a kWh,
\* prices in hundredths of a yen: the cost is in 1/10000 yen.
RECURSIVE WalkSteps(_, _, _)
WalkSteps(steps, remaining_kwh, consumption_cost) ==
    IF steps = <<>> THEN OkN(consumption_cost)
    ELSE LET step == Head(steps)
             p == GetItem(step, "pricePerUnit")
             s == GetItem(step, "stepStart")
             e == GetItem(step, "stepEnd")
             infinite == e.ok /\ e.v.t = "null"
         IN The({ LET step_width == step_end.n - step_start.n
                      kwh_on_this_step ==
                          IF infinite THEN remaining_kwh
                          ELSE Min(remaining_kwh, step_width)
                      cost == IF kwh_on_this_step > 0
                              THEN consumption_cost + kwh_on_this_step * price.n
                              ELSE consumption_cost
                      left == IF kwh_on_this_step > 0
                              THEN remaining_kwh - kwh_on_this_step
                              ELSE remaining_kwh
                  IN IF ~price.ok THEN price
                     ELSE IF ~step_start.ok THEN step_start
                     ELSE IF ~step_end.ok THEN step_end
                     ELSE IF left <= 0 THEN OkN(cost)
                     ELSE WalkSteps(Tail(steps), left, cost) :
                  price \in {IF p.ok THEN ToDecimal(p.v) ELSE p},
                  step_start \in {IF s.ok THEN ToDecimal(s.v) ELSE s},
                  step_end \in {IF e.ok /\ ~infinite THEN ToDecimal(e.v) ELSE e} })

\* OctopusCurrentMonthCostSensor._calculate_cost_for_kwh(total_kwh,
\* product_data), total_kwh in hundredths of a kWh, the result in 1/10000
\* yen.  Every operand here has at most nine digits, so the 28-digit context
\* never rounds and integer arithmetic is the code's arithmetic.
CalculateCostForKwh(total_kwh, product_data) ==
    LET f == Lookup(product_data, <<"fuelCostAdjustment", "pricePerUnit">>)
        fuel_adj_per_kwh == IF f.ok THEN ToDecimal(f.v) ELSE f
        consumption_steps == GetItem(product_data, "consumptionCharges")
        sorted_steps == IF consumption_steps.ok THEN SortedSteps(consumption_steps.v)
                        ELSE consumption_steps
    IN The({ IF ~fuel_adj_per_kwh.ok THEN fuel_adj_per_kwh
             ELSE IF ~consumption_cost.ok THEN consumption_cost
             ELSE OkN(consumption_cost.n + total_kwh * fuel_adj_per_kwh.n) :
             consumption_cost \in
                 {IF sorted_steps.ok THEN WalkSteps(sorted_steps.v.items, total_kwh, 0)
                  ELSE sorted_steps} })

\* round(num/den, 2) of an amount of num/den hundredths: to the nearest
\* hundredth, a tie to the even one
RoundHalfEven(num, den) ==
    LET q == num \div den
        r == num - q * den
    IN IF 2 * r < den THEN q
       ELSE IF 2 * r > den THEN q + 1
       ELSE IF q % 2 = 0 THEN q ELSE q + 1

-----------------------------------------------------------------------------
(* sensor.py: the cost getters and the account getters *)

StandingChargePath == <<"standingCharges", "[0]", "pricePerUnit">>

\* OctopusCurrentMonthCostSensor.native_value, in hundredths of a yen
CurrentMonthCost(data, today) ==
    IF Falsy(data) THEN ReturnsNone
    ELSE The({ LET it == Iterate(all_readings.v)
                   sc == Lookup(product_data.v, StandingChargePath)
                   days_so_far == CivilFromDays(today).d
               IN The({ The({ LET standing_cost ==
                                      standing_charge_per_day.n * days_so_far
                                  failure ==
                                      IF ~all_readings.ok THEN all_readings
                                      ELSE IF ~product_data.ok THEN product_data
                                      ELSE IF ~total_kwh.ok THEN total_kwh
                                      ELSE IF ~usage_cost.ok THEN usage_cost
                                      ELSE standing_charge_per_day
                              IN IF failure.ok
                                 THEN ReturnsDecimal(
                                          RoundHalfEven(
                                              usage_cost.n + standing_cost * 100, 100))
                                 ELSE Except(failure.exc, CostErrors, ReturnsNone) :
                              usage_cost \in
                                  {CalculateCostForKwh(total_kwh.n, product_data.v)} }) :
                        total_kwh \in
                            {IF it.ok
                             THEN SumReadings(it.v.items, "current_month", today, 0)
                             ELSE it},
                        standing_charge_per_day \in
                            {IF sc.ok THEN ToDecimal(sc.v) ELSE sc} }) :
               all_readings \in {Lookup(data, ReadingsPath)},
               product_data \in {Lookup(data, ProductPath)} })

-----------------------------------------------------------------------------
(* decimal.Decimal under the default context: 28 significant digits,       *)
(* ROUND_HALF_EVEN.  A value is a coefficient, given by its digits, times   *)
(* a power of ten; the values the getters handle are never negative.        *)

\* decimal.getcontext().prec
DECIMAL_PREC == 28

Dec(c, e) == [c |-> c, e |-> e]

RECURSIVE Digits(_)
Digits(n) == IF n = 0 THEN <<>> ELSE Append(Digits(n \div 10), n % 10)

\* the coefficient without its leading zeros
StripZeros(c) ==
    LET nz == {i \in 1..Len(c) : c[i] # 0} IN
    IF nz = {} THEN <<>>
    ELSE SubSeq(c, CHOOSE i \in nz : \A j \in nz : i <= j, Len(c))

Pad(c, k) == c \o [i \in 1..k |-> 0]

RECURSIVE SeqValue(_, _)
SeqValue(c, acc) == IF c = <<>> THEN acc ELSE SeqValue(Tail(c), 10 * acc + Head(c))

\* a Decimal holding n hundredths
DecOfHundredths(n) == Dec(Digits(n), -2)

DecIsZero(a) == StripZeros(a.c) = <<>>

\* c + 1: the last digit below nine goes up by one, the nines after it to zero
Increment(c) ==
    LET low == {i \in 1..Len(c) : c[i] < 9} IN
    IF low = {} THEN <<1>> \o [i \in 1..Len(c) |-> 0]
    ELSE LET k == CHOOSE i \in low : \A j \in low : j <= i IN
         [i \in 1..Len(c) |-> IF i < k THEN c[i] ELSE IF i = k THEN c[i] + 1 ELSE 0]

\* whether the digits dropped (and whatever lies beyond them, `sticky`) round
\* the digits kept upwards: to the nearest, a tie to the even neighbour
RoundsUp(keep, drop, sticky) ==
    /\ drop # <<>>
    /\ \/ drop[1] > 5
       \/ /\ drop[1] = 5
          /\ \/ sticky
             \/ \E i \in 2..Len(drop) : drop[i] # 0
             \/ (keep # <<>> /\ keep[Len(keep)] % 2 = 1)

\* the context's rounding of every arithmetic result
DecRound(c0, e, sticky) ==
    LET c == StripZeros(c0) IN
    IF Len(c) <= DECIMAL_PREC THEN Dec(c, e)
    ELSE LET keep == SubSeq(c, 1, DECIMAL_PREC)
             drop == SubSeq(c, DECIMAL_PREC + 1, Len(c))
             k == IF RoundsUp(keep, drop, sticky) THEN Increment(keep) ELSE keep
         IN IF Len(k) > DECIMAL_PREC
            THEN Dec(SubSeq(k, 1, DECIMAL_PREC), e + Len(drop) + 1)
            ELSE Dec(k, e + Len(drop))

\* c with k leading zeros
PadLeft(c, k) == [i \in 1..k |-> 0] \o c

\* the digits of c * m + carry that fit the length of c, and the carry out of
\* them; a long coefficient is the two halves, the carry passing from the
\* lower half to the upper
RECURSIVE MulPart(_, _, _)
MulPart(c, m, carry) ==
    IF Len(c) = 0 THEN [d |-> <<>>, carry |-> carry]
    ELSE IF Len(c) = 1
    THEN [d |-> <<(c[1] * m + carry) % 10>>, carry |-> (c[1] * m + carry) \div 10]
    ELSE LET h == Len(c) \div 2 IN
         The({ The({ [d |-> hi.d \o lo.d, carry |-> hi.carry] :
                     hi \in {MulPart(SubSeq(c, 1, h), m, lo.carry)} }) :
               lo \in {MulPart(SubSeq(c, h + 1, Len(c)), m, carry)} })

MulDigits(c, m, carry) ==
    LET r == MulPart(c, m, carry) IN Digits(r.carry) \o r.d

\* a * (m * 10^me)
DecMulInt(a, m, me) == DecRound(MulDigits(a.c, m, 0), a.e + me, FALSE)

\* a + b + carry for two coefficients of one length
RECURSIVE AddPart(_, _, _)
AddPart(a, b, carry) ==
    IF Len(a) = 0 THEN [d |-> <<>>, carry |-> carry]
    ELSE IF Len(a) = 1
    THEN [d |-> <<(a[1] + b[1] + carry) % 10>>,
          carry |-> (a[1] + b[1] + carry) \div 10]
    ELSE LET h == Len(a) \div 2 IN
         The({ The({ [d |-> hi.d \o lo.d, carry |-> hi.carry] :
                     hi \in {AddPart(SubSeq(a, 1, h), SubSeq(b, 1, h), lo.carry)} }) :
               lo \in {AddPart(SubSeq(a, h + 1, Len(a)), SubSeq(b, h + 1, Len(b)),
                               carry)} })

AddDigits(a, b, carry) ==
    LET n == IF Len(a) >= Len(b) THEN Len(a) ELSE Len(b)
        r == AddPart(PadLeft(a, n - Len(a)), PadLeft(b, n - Len(b)), carry)
    IN Digits(r.carry) \o r.d

\* a - b - borrow for two coefficients of one length
RECURSIVE SubPart(_, _, _)
SubPart(a, b, borrow) ==
    IF Len(a) = 0 THEN [d |-> <<>>, borrow |-> borrow]
    ELSE IF Len(a) = 1
    THEN [d |-> <<(a[1] + 10 - b[1] - borrow) % 10>>,
          borrow |-> IF a[1] < b[1] + borrow THEN 1 ELSE 0]
    ELSE LET h == Len(a) \div 2 IN
         The({ The({ [d |-> hi.d \o lo.d, borrow |-> hi.borrow] :
                     hi \in {SubPart(SubSeq(a, 1, h), SubSeq(b, 1, h), lo.borrow)} }) :
               lo \in {SubPart(SubSeq(a, h + 1, Len(a)), SubSeq(b, h + 1, Len(b)),
                               borrow)} })

\* a - b digit by digit, for a >= b
SubDigits(a, b, borrow) == SubPart(a, PadLeft(b, Len(a) - Len(b)), borrow).d

\* the two coefficients brought to the smaller exponent
Aligned(a, b) ==
    LET e == IF a.e <= b.e THEN a.e ELSE b.e IN
    [a |-> StripZeros(Pad(a.c, a.e - e)), b |-> StripZeros(Pad(b.c, b.e - e)), e |-> e]

DecAdd(a, b) ==
    LET al == Aligned(a, b) IN DecRound(AddDigits(al.a, al.b, 0), al.e, FALSE)

DecLess(a, b) ==
    LET al == Aligned(a, b) IN
    \/ Len(al.a) < Len(al.b)
    \/ /\ Len(al.a) = Len(al.b)
       /\ \E i \in 1..Len(al.a) :
              al.a[i] < al.b[i] /\ \A j \in 1..(i - 1) : al.a[j] = al.b[j]

\* a - b for a >= b
DecSub(a, b) ==
    LET al == Aligned(a, b) IN DecRound(SubDigits(al.a, al.b, 0), al.e, FALSE)

\* long division of (rem, c) by a small positive integer: the quotient digit
\* for each digit of c, and the remainder left; a long coefficient is the two
\* halves, the remainder passing from the upper half to the lower
RECURSIVE LongDiv(_, _, _)
LongDiv(c, rem, d) ==
    IF Len(c) = 0 THEN [q |-> <<>>, rem |-> rem]
    ELSE IF Len(c) = 1
    THEN [q |-> <<(rem * 10 + c[1]) \div d>>, rem |-> (rem * 10 + c[1]) % d]
    ELSE LET h == Len(c) \div 2 IN
         The({ The({ [q |-> hi.q \o lo.q, rem |-> lo.rem] :
                     lo \in {LongDiv(SubSeq(c, h + 1, Len(c)), hi.rem, d)} }) :
               hi \in {LongDiv(SubSeq(c, 1, h), rem, d)} })

\* a / d: the division is carried beyond the digits of a far enough for the
\* quotient to have more digits than the context keeps; an exact quotient
\* loses the zeros that carrying on added after its last digit
DecDivInt(a, d) ==
    LET extra == DECIMAL_PREC + 1 + Len(Digits(d))
        r == LongDiv(Pad(a.c, extra), 0, d)
        n == Len(r.q)
        used == {i \in (n - extra)..n : i = n - extra \/ r.q[i] # 0}
        last == CHOOSE i \in used : \A j \in used : j <= i
    IN IF r.rem = 0 THEN DecRound(SubSeq(r.q, 1, last), a.e - (last - (n - extra)), FALSE)
       ELSE DecRound(r.q, a.e - extra, TRUE)

\* round(a, 2), in hundredths
DecRound2(a) ==
    IF a.e >= -2 THEN SeqValue(Pad(a.c, a.e + 2), 0)
    ELSE LET n == -2 - a.e
             c == [i \in 1..(n - Len(a.c)) |-> 0] \o a.c
             keep == SubSeq(c, 1, Len(c) - n)
             drop == SubSeq(c, Len(c) - n + 1, Len(c))
         IN SeqValue(keep, 0) + (IF RoundsUp(keep, drop, FALSE) THEN 1 ELSE 0)

-----------------------------------------------------------------------------
(* sensor.py: the monthly estimate *)

\* one pass of the loop over the sorted steps on Decimal operands: the cost
\* and the kWh left after the step, or the exception it raises
EstimateStep(step, remaining_kwh, consumption_cost) ==
    LET p == GetItem(step, "pricePerUnit")
        s == GetItem(step, "stepStart")
        e == GetItem(step, "stepEnd")
        infinite == e.ok /\ e.v.t = "null"
        Failed(exc) == [ok |-> FALSE, exc |-> exc, cost |-> consumption_cost,
                        left |-> remaining_kwh]
    IN The({ LET step_width == step_end.n - step_start.n
                 positive == IF infinite THEN ~DecIsZero(remaining_kwh)
                             ELSE step_width > 0 /\ ~DecIsZero(remaining_kwh)
             IN IF ~price.ok THEN Failed(price.exc)
                ELSE IF ~step_start.ok THEN Failed(step_start.exc)
                ELSE IF ~step_end.ok THEN Failed(step_end.exc)
                ELSE IF ~positive
                THEN [ok |-> TRUE, exc |-> "none", cost |-> consumption_cost,
                      left |-> remaining_kwh]
                ELSE The({ The({ [ok |-> TRUE, exc |-> "none",
                                  cost |-> DecAdd(consumption_cost, step_cost),
                                  left |-> DecSub(remaining_kwh, kwh_on_this_step)] :
                                 step_cost \in
                                     {DecMulInt(kwh_on_this_step, price.n, -2)} }) :
                           kwh_on_this_step \in
                               {IF infinite THEN remaining_kwh
                                ELSE IF DecLess(DecOfHundredths(step_width),
                                                remaining_kwh)
                                THEN DecOfHundredths(step_width)
                                ELSE remaining_kwh} }) :
             price \in {IF p.ok THEN ToDecimal(p.v) ELSE p},
             step_start \in {IF s.ok THEN ToDecimal(s.v) ELSE s},
             step_end \in {IF e.ok /\ ~infinite THEN ToDecimal(e.v) ELSE e} })

\* the loop over the sorted steps on Decimal operands
RECURSIVE EstimateWalkSteps(_, _, _)
EstimateWalkSteps(steps, remaining_kwh, consumption_cost) ==
    IF steps = <<>> THEN [ok |-> TRUE, d |-> consumption_cost, exc |-> "none"]
    ELSE The({ IF ~r.ok THEN [ok |-> FALSE, d |-> Dec(<<>>, 0), exc |-> r.exc]
               ELSE IF DecIsZero(r.left)
               THEN [ok |-> TRUE, d |-> r.cost, exc |-> "none"]
               ELSE EstimateWalkSteps(Tail(steps), r.left, r.cost) :
               r \in {EstimateStep(Head(steps), remaining_kwh, consumption_cost)} })

\* OctopusMonthlyEstimateSensor._calculate_cost_for_kwh(total_kwh,
\* product_data) on a Decimal total_kwh
EstimateCostForKwh(total_kwh, product_data) ==
    LET f == Lookup(product_data, <<"fuelCostAdjustment", "pricePerUnit">>)
        fuel_adj_per_kwh == IF f.ok THEN ToDecimal(f.v) ELSE f
        consumption_steps == GetItem(product_data, "consumptionCharges")
        sorted_steps == IF consumption_steps.ok THEN SortedSteps(consumption_steps.v)
                        ELSE consumption_steps
    IN The({ IF ~fuel_adj_per_kwh.ok
             THEN [ok |-> FALSE, d |-> Dec(<<>>, 0), exc |-> fuel_adj_per_kwh.exc]
             ELSE IF ~consumption_cost.ok THEN consumption_cost
             ELSE The({ [ok |-> TRUE, d |-> DecAdd(consumption_cost.d, fuel_cost),
                         exc |-> "none"] :
                        fuel_cost \in
                            {DecMulInt(total_kwh, fuel_adj_per_kwh.n, -2)} }) :
             consumption_cost \in
                 {IF sorted_steps.ok
                  THEN EstimateWalkSteps(sorted_steps.v.items, total_kwh, Dec(<<>>, 0))
                  ELSE [ok |-> FALSE, d |-> Dec(<<>>, 0), exc |-> sorted_steps.exc]} })

\* daily_avg_kwh * days_in_month
EstimatedMonthKwh(total_kwh_so_far, days_so_far, days_in_month) ==
    The({ DecMulInt(daily_avg_kwh, days_in_month, 0) :
          daily_avg_kwh \in
              {DecDivInt(DecOfHundredths(total_kwh_so_far), days_so_far)} })

\* OctopusMonthlyEstimateSensor.native_value, in hundredths of a yen
MonthlyEstimate(data, today) ==
    IF Falsy(data) THEN ReturnsNone
    ELSE The({ LET it == Iterate(all_readings.v)
                   sc == Lookup(product_data.v, StandingChargePath)
               IN The({ The({ LET standing_cost ==
                                      DecOfHundredths(
                                          standing_charge_per_day.n * days_in_month)
                                  failure ==
                                      IF ~all_readings.ok THEN all_readings.exc
                                      ELSE IF ~product_data.ok THEN product_data.exc
                                      ELSE IF ~total_kwh_so_far.ok
                                      THEN total_kwh_so_far.exc
                                      ELSE IF ~estimated_usage_cost.ok
                                      THEN estimated_usage_cost.exc
                                      ELSE standing_charge_per_day.exc
                              IN IF failure = "none"
                                 THEN ReturnsDecimal(
                                          DecRound2(DecAdd(estimated_usage_cost.d,
                                                           standing_cost)))
                                 ELSE Except(failure, CostErrors, ReturnsNone) :
                              estimated_usage_cost \in
                                  {EstimateCostForKwh(
                                       EstimatedMonthKwh(total_kwh_so_far.n,
                                                         days_so_far, days_in_month),
                                       product_data.v)} }) :
                        total_kwh_so_far \in
                            {IF it.ok
                             THEN SumReadings(it.v.items, "current_month", today, 0)
                             ELSE it},
                        standing_charge_per_day \in
                            {IF sc.ok THEN ToDecimal(sc.v) ELSE sc},
                        days_so_far \in {CivilFromDays(today).d},
                        days_in_month \in
                            {DaysInMonth(CivilFromDays(today).y,
                                         CivilFromDays(today).m)} }) :
               all_readings \in {Lookup(data, ReadingsPath)},
               product_data \in {Lookup(data, ProductPath)} })

\* what native_value leaves in self._attr_extra_state_attributes of the
\* current-month cost entity: assigned only when nothing was raised before
CostAttributesAfterRead(data, today, old) ==
    IF CurrentMonthCost(data, today).kind # "decimal" THEN old
    ELSE LET product_data == Lookup(data, ProductPath).v
             total_kwh == PeriodTotal(data, "current_month", today).n
             days_so_far == CivilFromDays(today).d
         IN [set |-> TRUE,
             total_kwh |-> total_kwh,
             usage_cost |->
                 RoundHalfEven(CalculateCostForKwh(total_kwh, product_data).n, 100),
             standing_cost |->
                 ToDecimal(Lookup(product_data, StandingChargePath).v).n * days_so_far,
             days_so_far |-> days_so_far]

\* the same for the monthly estimate entity
EstimateAttributesAfterRead(data, today, old) ==
    IF MonthlyEstimate(data, today).kind # "decimal" THEN old
    ELSE LET product_data == Lookup(data, ProductPath).v
             total_kwh_so_far == PeriodTotal(data, "current_month", today).n
             days_so_far == CivilFromDays(today).d
             days_in_month == DaysInMonth(CivilFromDays(today).y, CivilFromDays(today).m)
             estimated_month_kwh ==
                 EstimatedMonthKwh(total_kwh_so_far, days_so_far, days_in_month)
         IN [set |-> TRUE,
             total_kwh_so_far |-> total_kwh_so_far,
             daily_avg_kwh |->
                 DecRound2(DecDivInt(DecOfHundredths(total_kwh_so_far), days_so_far)),
             estimated_month_kwh |-> DecRound2(estimated_month_kwh),
             estimated_usage_cost |->
                 DecRound2(EstimateCostForKwh(estimated_month_kwh, product_data).d),
             standing_cost |->
                 ToDecimal(Lookup(product_data, StandingChargePath).v).n * days_in_month,
             days_so_far |-> days_so_far,
             days_in_month |-> days_in_month]

\* self.coordinator.data.get(key)
AccountField(data, key) ==
    IF Falsy(data) THEN ReturnsNone
    ELSE LET r == DictGet(data, key) IN
         IF r.ok THEN ReturnsJson(r.v) ELSE Raises(r.exc)

Balance(data) == AccountField(data, "balance")
OverdueBalance(data) == AccountField(data, "overdueBalance")

\* a comparison that takes any tag for the one asked for
IsAnyText(v, s) == v.t = "str"

IsText(v, s) == v.t = "str" /\ v.s = s

\* OctopusLastBillSensor.native_value
LastBill(data) ==
    IF Falsy(data) THEN ReturnsNone
    ELSE LET bill == Lookup(data, <<"bills", "edges", "[0]", "node">>)
             bill_type == DictGet(bill.v, "__typename")
             grossTotal == Lookup(bill.v, <<"totalCharges", "grossTotal">>)
             grossAmount == DictGet(bill.v, "grossAmount")
         IN IF ~bill.ok THEN Except(bill.exc, LookupErrors, ReturnsNone)
            ELSE IF ~bill_type.ok THEN Raises(bill_type.exc)
            ELSE IF \/ IsText(bill_type.v, "PeriodBasedDocumentType")
                    \/ IsText(bill_type.v, "StatementType")
            THEN IF grossTotal.ok THEN ReturnsJson(grossTotal.v)
                 ELSE Except(grossTotal.exc, LookupErrors, ReturnsNone)
            ELSE IF IsText(bill_type.v, "InvoiceType")
            THEN ReturnsJson(grossAmount.v)
            ELSE ReturnsNone

\* OctopusProductSensor.native_value
Product(data) ==
    IF Falsy(data) THEN ReturnsNone
    ELSE LET name == Lookup(data, ProductPath \o <<"displayName">>) IN
         IF name.ok THEN ReturnsJson(name.v)
         ELSE Except(name.exc, LookupErrors, ReturnsJson(JText("Unknown")))

\* str(x) inside an f-string, as characters: None, an integer, or the string
Str(x) ==
    CASE x.t = "null" -> <<78, 111, 110, 101>>
      [] x.t = "num" -> IF x.n = 0 THEN <<48>>
                        ELSE [i \in 1..Len(Digits(x.n)) |-> 48 + Digits(x.n)[i]]
      [] x.t = "str" -> x.chars

\* f"({step.get('stepStart')}~{step.get('stepEnd')}): {step.get('pricePerUnit')}"
FormatStep(step) ==
    JChars(<<40>> \o Str(DictGet(step, "stepStart").v) \o <<126>>
               \o Str(DictGet(step, "stepEnd").v) \o <<41, 58, 32>>
               \o Str(DictGet(step, "pricePerUnit").v))

\* attrs[f"unit_rate_step_{i+1}"], for the steps a product can have here
StepKey(i) ==
    <<"unit_rate_step_1", "unit_rate_step_2", "unit_rate_step_3",
      "unit_rate_step_4">>[i]

\* attrs[k] = v
Put(a, k, v) == [x \in DOMAIN a \cup {k} |-> IF x = k THEN v ELSE a[x]]

NoAttributes == [x \in {} |-> JNull]

ReturnsAttributes(a) == [kind |-> "attrs", attrs |-> a, exc |-> "none"]
RaisesInAttributes(e) == [kind |-> "raise", attrs |-> NoAttributes, exc |-> e]

\* if x := product.get(key): attrs[name] = <first>(x).get("pricePerUnit")
\* where `indexed` says whether x[0] is taken first
PutPrice(acc, product, key, name, indexed) ==
    LET x == DictGet(product, key)
        item == IF indexed THEN First(x.v) ELSE x
        price == DictGet(item.v, "pricePerUnit")
    IN IF ~acc.ok THEN acc
       ELSE IF ~x.ok THEN [ok |-> FALSE, attrs |-> acc.attrs, exc |-> x.exc]
       ELSE IF Falsy(x.v) THEN acc
       ELSE IF ~item.ok THEN [ok |-> FALSE, attrs |-> acc.attrs, exc |-> item.exc]
       ELSE IF ~price.ok THEN [ok |-> FALSE, attrs |-> acc.attrs, exc |-> price.exc]
       ELSE [ok |-> TRUE, attrs |-> Put(acc.attrs, name, price.v), exc |-> "none"]

\* the branch on consumptionCharges: the sort comes before the test for a
\* single charge without stepStart
PutUnitRates(acc, product) ==
    LET cons_charges == DictGet(product, "consumptionCharges")
        sorted_steps == SortedSteps(cons_charges.v)
        steps == sorted_steps.v.items
        single == Len(steps) = 1 /\ "stepStart" \notin DOMAIN steps[1].fields
        entries[i \in 0..Len(steps)] ==
            IF i = 0 THEN acc.attrs
            ELSE Put(entries[i - 1], StepKey(i), FormatStep(steps[i]))
    IN IF ~acc.ok THEN acc
       ELSE IF ~cons_charges.ok
       THEN [ok |-> FALSE, attrs |-> acc.attrs, exc |-> cons_charges.exc]
       ELSE IF Falsy(cons_charges.v) THEN acc
       ELSE IF ~sorted_steps.ok
       THEN [ok |-> FALSE, attrs |-> acc.attrs, exc |-> sorted_steps.exc]
       ELSE IF single
       THEN [ok |-> TRUE,
             attrs |-> Put(acc.attrs, "unit_rate", DictGet(steps[1], "pricePerUnit").v),
             exc |-> "none"]
       ELSE [ok |-> TRUE, attrs |-> entries[Len(steps)], exc |-> "none"]

\* OctopusProductSensor.extra_state_attributes
ProductAttributes(data) ==
    IF Falsy(data) THEN ReturnsAttributes(NoAttributes)
    ELSE LET product == Lookup(data, ProductPath)
             a0 == [ok |-> product.ok, attrs |-> NoAttributes, exc |-> product.exc]
             a1 == PutPrice(a0, product.v, "standingCharges", "standing_charge", TRUE)
             a2 == PutPrice(a1, product.v, "fuelCostAdjustment",
                            "fuel_cost_adjustment", FALSE)
             a3 == PutUnitRates(a2, product.v)
         IN IF a3.ok THEN ReturnsAttributes(a3.attrs)
            ELSE IF a3.exc \in LookupErrors THEN ReturnsAttributes(NoAttributes)
            ELSE RaisesInAttributes(a3.exc)

\* the ten entities sensor.py adds, by their sensor_key
Sensors ==
    {"today_consumption", "yesterday_consumption", "current_month_consumption",
     "current_month_cost", "last_month_consumption", "monthly_estimate",
     "balance", "overdue_balance", "last_bill", "product"}

NativeValue(sensor, data, today) ==
    CASE sensor = "today_consumption" -> TodayConsumption(data, today)
      [] sensor = "yesterday_consumption" -> YesterdayConsumption(data, today)
      [] sensor = "current_month_consumption" -> CurrentMonthConsumption(data, today)
      [] sensor = "current_month_cost" -> CurrentMonthCost(data, today)
      [] sensor = "last_month_consumption" -> LastMonthConsumption(data, today)
      [] sensor = "monthly_estimate" -> MonthlyEstimate(data, today)
      [] sensor = "balance" -> Balance(data)
      [] sensor = "overdue_balance" -> OverdueBalance(data)
      [] sensor = "last_bill" -> LastBill(data)
      [] sensor = "product" -> Product(data)

-----------------------------------------------------------------------------
(* The account payloads the provider serves *)

Reading(startAt, value) == JObj([startAt |-> startAt, value |-> value])

Step(pricePerUnit, stepStart, stepEnd) ==
    JObj([pricePerUnit |-> pricePerUnit, stepStart |-> stepStart, stepEnd |-> stepEnd])

\* a stepped product: 20.00 yen up to 2 kWh, 25.00 up to 4 kWh, 30.00 beyond,
\* the steps listed out of order
SteppedProduct ==
    JObj([displayName |-> JText("Green Octopus"),
          standingCharges |-> JList(<<JObj([pricePerUnit |-> JChars(<<50, 57, 46, 49, 48>>)])>>),
          fuelCostAdjustment |-> JObj([pricePerUnit |-> JChars(<<49, 46, 53, 48>>)]),
          consumptionCharges |->
              JList(<<Step(JChars(<<50, 53, 46, 48, 48>>), JNum(2), JNum(4)),
                      Step(JChars(<<51, 48, 46, 48, 48>>), JNum(4), JNull),
                      Step(JChars(<<50, 48, 46, 48, 48>>), JNum(0), JNum(2))>>)])

\* half-hourly readings around the end of February and the middle of March
MarchReadings ==
    <<Reading(JTimestamp(2024, 2, 29, 14, 30, 0), JChars(<<48, 46, 53, 48>>)),
      Reading(JTimestamp(2024, 2, 29, 15, 30, 0), JChars(<<49, 46, 50, 53>>)),
      Reading(JTimestamp(2024, 3, 13, 15, 30, 0), JChars(<<50, 46, 48, 48>>)),
      Reading(JTimestamp(2024, 3, 14, 15, 0, 0), JChars(<<48, 46, 55, 53>>)),
      Reading(JTimestamp(2024, 3, 15, 14, 30, 0), JChars(<<48, 46, 51, 48>>))>>

\* a reading whose value is not a numeral
UnreadableReading == Reading(JTimestamp(2024, 3, 15, 0, 0, 0), JChars(<<110, 47, 97>>))

PropertyWith(product, readings) ==
    JObj([electricitySupplyPoints |->
             JList(<<JObj([agreements |-> JList(<<JObj([product |-> product])>>),
                           halfHourlyReadings |-> JList(readings)])>>)])

Property(readings) == PropertyWith(SteppedProduct, readings)

PeriodBill ==
    JObj([id |-> JText("1"), __typename |-> JText("PeriodBasedDocumentType"),
          issuedDate |-> JText("2024-03-05"),
          totalCharges |-> JObj([grossTotal |-> JNum(8123)])])

Account(balance, bills, properties) ==
    JObj([number |-> JText("A-1"), balance |-> balance, overdueBalance |-> JNum(0),
          bills |-> bills, properties |-> properties])

\* 1: every field present and readable
\* 2: no bill yet, and one reading value that is not a numeral
\* 3: no property, and a bill edge whose node is null
\* 4: what the provider sends beside an errors array: fields nulled out
Payload(id) ==
    CASE id = NoData -> JNull
      [] id = 1 -> Account(JNum(-1500),
                           JObj([edges |-> JList(<<JObj([node |-> PeriodBill])>>)]),
                           JList(<<Property(MarchReadings)>>))
      [] id = 2 -> Account(JNum(0),
                           JObj([edges |-> JList(<<>>)]),
                           JList(<<Property(MarchReadings \o <<UnreadableReading>>)>>))
      [] id = 3 -> Account(JNum(300),
                           JObj([edges |-> JList(<<JObj([node |-> JNull])>>)]),
                           JList(<<>>))
      [] id = 4 -> Account(JNull, JNull, JNull)

\* the instant the model's clock starts at: 23:10 on 15 March 2024 in Tokyo
StartInstant == UtcMinute(2024, 3, 15, 14, 10)

\* datetime.datetime.now(tz=self._tz).date()
Today(clock) == TokyoDate(StartInstant + clock)

\* what a sensor presents now
Presented(sensor) == NativeValue(sensor, Payload(coordinator_data), Today(now))

-----------------------------------------------------------------------------
(* Actions *)

Init ==
    /\ now = 0 /\ ticks = 0
    /\ token = NoToken /\ token_expiry = NoExpiry
    /\ issued = 0 /\ issuedAt = NoExpiry
    /\ phase = "init"
    /\ inflight = NoRequest /\ response = NoResponse /\ pending = FALSE
    /\ attempt = 0 /\ authFrom = "none" /\ first_resp = NoResponse
    /\ retry_cause = "none"
    /\ nAuth = 0 /\ nRetryAuth = 0 /\ nReq = 0
    /\ account_number = 0
    /\ coordinator_created = FALSE
    /\ coordinator_data = NoData
    /\ last_refresh = "none"
    /\ sensors_created = FALSE
    /\ data_query_sent = FALSE
    /\ signals = 0 /\ last_exc = "none" /\ escaped = FALSE
    /\ cooperative = TRUE /\ last_failure = "none"
    /\ calc_op = "idle" /\ calc_in = <<>> /\ calc_out = <<>>
    /\ attrs = NoAttrs

\* The prologue of async_get_account_number and async_get_data:
\* _ensure_valid_token, then either the token request or the first request.
Begin(kind) ==
    /\ IF EnsureNeedsToken(token, token_expiry, now)
       THEN /\ inflight' = AuthRequest(now)
            /\ authFrom' = "ensure"
            /\ nAuth' = 1 /\ nReq' = 0
            /\ data_query_sent' = data_query_sent
       ELSE /\ inflight' = Request(kind, token, now)
            /\ authFrom' = "none"
            /\ nAuth' = 0 /\ nReq' = 1
            /\ data_query_sent' = (data_query_sent \/ kind = "data")
    /\ nRetryAuth' = 0 /\ attempt' = 0
    /\ first_resp' = NoResponse /\ response' = NoResponse /\ pending' = FALSE
    /\ retry_cause' = "none"
    /\ cooperative' = TRUE
    /\ UNCHANGED clientVars

\* The account number is known: the coordinator is built and
\* async_config_entry_first_refresh runs async_update_data to its first await.
StartFirstRefresh(number) ==
    /\ account_number' = number
    /\ coordinator_created' = TRUE
    /\ phase' = "first_refresh"
    /\ signals' = 0 /\ last_exc' = "none" /\ escaped' = FALSE
    /\ Begin("data")
    /\ UNCHANGED <<coordinator_data, last_refresh, sensors_created, last_failure>>

\* The current call raised e: async_setup_entry returns False, or
\* async_update_data maps the exception and the coordinator records a failure.
CallRaised(e) ==
    IF phase = "acct"
    THEN IF SetupAfterAccountNumber(Raise(e)) = "aborted"
         THEN /\ phase' = "aborted"
              /\ last_exc' = e
              /\ inflight' = NoRequest /\ pending' = FALSE /\ authFrom' = "none"
              /\ response' = NoResponse /\ first_resp' = NoResponse
              /\ cooperative' = TRUE
              /\ UNCHANGED <<attempt, retry_cause, nAuth, nRetryAuth, nReq,
                             data_query_sent>>
              /\ UNCHANGED clientVars
              /\ UNCHANGED <<account_number, coordinator_created,
                             coordinator_data, last_refresh, sensors_created,
                             signals, escaped, last_failure>>
         ELSE StartFirstRefresh(0)
    ELSE LET out == AsyncUpdateData(Raise(e)) IN
         /\ inflight' = NoRequest /\ pending' = FALSE /\ authFrom' = "none"
         /\ response' = NoResponse /\ first_resp' = NoResponse
         /\ cooperative' = TRUE
         /\ UNCHANGED <<attempt, retry_cause, nAuth, nRetryAuth, nReq,
                        data_query_sent>>
         /\ UNCHANGED clientVars
         /\ last_exc' = e
         /\ signals' = IF out.act = "raise" /\ out.exc = "UpdateFailed"
                       THEN signals + 1 ELSE signals
         /\ escaped' = (out.act = "raise" /\ out.exc # "UpdateFailed")
         /\ coordinator_data' = CoordinatorData(out, coordinator_data)
         /\ last_refresh' = CoordinatorStatus(out)
         /\ last_failure' = IF out.act = "return" THEN last_failure
                            ELSE FailureCause(inflight, attempt, response, e)
         /\ phase' = IF phase = "first_refresh" /\ out.act = "raise"
                     THEN "not_ready" ELSE "loaded"
         /\ sensors_created' = (sensors_created \/ out.act = "return")
         /\ UNCHANGED <<account_number, coordinator_created>>

\* async_get_data returned v: the coordinator installs it; after the first
\* refresh async_setup_entry goes on to create the entities.
DataReturned(v) ==
    LET out == AsyncUpdateData(Return(v)) IN
    /\ inflight' = NoRequest /\ pending' = FALSE /\ authFrom' = "none"
    /\ response' = NoResponse /\ first_resp' = NoResponse
    /\ cooperative' = TRUE
    /\ UNCHANGED <<attempt, retry_cause, nAuth, nRetryAuth, nReq,
                   data_query_sent>>
    /\ UNCHANGED clientVars
    /\ last_exc' = "none"
    /\ coordinator_data' = CoordinatorData(out, coordinator_data)
    /\ last_refresh' = CoordinatorStatus(out)
    /\ phase' = "loaded"
    /\ sensors_created' = TRUE
    /\ UNCHANGED <<account_number, coordinator_created, signals, escaped,
                   last_failure>>

\* An expiry signal at attempt 0: await self.async_get_token()
Reauthenticate(cause) ==
    /\ inflight' = AuthRequest(now)
    /\ authFrom' = "retry"
    /\ retry_cause' = cause
    /\ nAuth' = nAuth + 1 /\ nRetryAuth' = nRetryAuth + 1
    /\ first_resp' = response /\ pending' = FALSE
    /\ UNCHANGED <<response, attempt, nReq, data_query_sent, cooperative>>
    /\ UNCHANGED clientVars
    /\ UNCHANGED hostVars

\* async_setup_entry up to its first await
SetupEntry ==
    /\ phase = "init"
    /\ phase' = "acct"
    /\ Begin("acct")
    /\ UNCHANGED <<now, ticks, issued, account_number, coordinator_created,
                   coordinator_data, last_refresh, sensors_created, signals,
                   last_exc, escaped, last_failure>>
    /\ UNCHANGED calcVars

\* The host's scheduler starts a periodic refresh: async_update_data up to
\* its first await.
RefreshStart ==
    /\ phase = "loaded"
    /\ phase' = "refresh"
    /\ signals' = 0 /\ last_exc' = "none" /\ escaped' = FALSE
    /\ last_failure' = IF last_refresh = "ok" THEN "none" ELSE last_failure
    /\ Begin("data")
    /\ UNCHANGED <<now, ticks, issued, account_number, coordinator_created,
                   coordinator_data, last_refresh, sensors_created>>
    /\ UNCHANGED calcVars

\* Whether the request awaited carries a token obtained within this call
CarriesFreshToken == nAuth > 0 /\ inflight.auth = issued

Answer(r) ==
    /\ response' = r /\ pending' = TRUE
    /\ cooperative' = (cooperative /\ CooperativeReply(inflight, CarriesFreshToken, r))
    /\ UNCHANGED <<now, ticks, inflight, attempt, authFrom, first_resp,
                   retry_cause, nAuth, nRetryAuth, nReq, data_query_sent>>
    /\ UNCHANGED clientVars /\ UNCHANGED hostVars
    /\ UNCHANGED calcVars

ProviderAuthReply ==
    /\ inflight.kind = "auth" /\ ~pending
    /\ \E r \in AuthReplies(issued + 1) :
          /\ r.body > 0 => issued < MaxIssued
          /\ issued' = IF r.body > 0 THEN issued + 1 ELSE issued
          /\ Answer(r)

ProviderAccountReply ==
    /\ inflight.kind = "acct" /\ ~pending
    /\ \E r \in AccountReplies : Answer(r)
    /\ UNCHANGED issued

ProviderDataReply ==
    /\ inflight.kind = "data" /\ ~pending
    /\ \E r \in DataReplies : Answer(r)
    /\ UNCHANGED issued

\* async_get_token resumes with the provider's answer, and on success the
\* caller goes on to send its request with the new token.
OnTokenResponse ==
    /\ inflight.kind = "auth" /\ pending
    /\ LET e == GetTokenRaises(response) IN
       IF e = "none"
       THEN /\ token' = StoredToken(response)
            /\ token_expiry' = NewExpiry(now)
            /\ issuedAt' = now
            /\ inflight' = Request(CallKind,
                                   HeaderAfterRefresh(token, StoredToken(response)),
                                   now)
            /\ nReq' = nReq + 1
            /\ attempt' = IF authFrom = "retry" THEN 1 ELSE 0
            /\ authFrom' = "none"
            /\ pending' = FALSE
            /\ data_query_sent' = (data_query_sent \/ CallKind = "data")
            /\ UNCHANGED <<response, first_resp, retry_cause, nAuth, nRetryAuth,
                           cooperative>>
            /\ UNCHANGED hostVars
       ELSE CallRaised(e)
    /\ UNCHANGED <<now, ticks, issued>>
    /\ UNCHANGED calcVars

\* async_get_account_number resumes with the answer to its query
OnAccountResponse ==
    /\ inflight.kind = "acct" /\ pending
    /\ LET d == IF attempt = 0 THEN AccountDecision(response)
                ELSE AccountRetryDecision(first_resp, response) IN
       CASE d.act = "reauth" -> Reauthenticate(d.exc)
         [] d.act = "raise" -> CallRaised(d.exc)
         [] d.act = "return" -> StartFirstRefresh(d.val)
    /\ UNCHANGED <<now, ticks, issued>>
    /\ UNCHANGED calcVars

\* async_get_data resumes with the answer to the comprehensive query
OnDataResponse ==
    /\ inflight.kind = "data" /\ pending
    /\ LET d == DataDecision(attempt, response) IN
       CASE d.act = "reauth" -> Reauthenticate(d.exc)
         [] d.act = "raise" -> CallRaised(d.exc)
         [] d.act = "return" -> DataReturned(d.val)
    /\ UNCHANGED <<now, ticks, issued>>
    /\ UNCHANGED calcVars

\* `async with timeout(30)` expires while async_get_data awaits
RefreshTimeout ==
    /\ InRefresh /\ inflight.kind # "none"
    /\ CallRaised("TimeoutError")
    /\ UNCHANGED <<now, ticks, issued>>
    /\ UNCHANGED calcVars

\* The clock advances; while a request is awaited only by a minute.
Tick ==
    /\ ticks < MaxTicks
    /\ \E d \in TickSteps :
          /\ inflight.kind # "none" => d = 1
          /\ now' = now + d
    /\ ticks' = ticks + 1
    /\ UNCHANGED <<issued, response, cooperative>>
    /\ UNCHANGED clientVars /\ UNCHANGED callVars /\ UNCHANGED hostVars
    /\ UNCHANGED calcVars

Next ==
    \/ SetupEntry
    \/ RefreshStart
    \/ ProviderAuthReply
    \/ ProviderAccountReply
    \/ ProviderDataReply
    \/ OnTokenResponse
    \/ OnAccountResponse
    \/ OnDataResponse
    \/ RefreshTimeout
    \/ Tick

Spec == Init /\ [][Next]_vars

-----------------------------------------------------------------------------
(* Tariffs and snapshots the getters are applied to *)

\* stepEnd of the last step: null on the wire, Decimal('Infinity') in the loop
Unbounded == -1

TariffStep(price, start, end) == [price |-> price, start |-> start, end |-> end]

\* prices in hundredths of a yen, step bounds in kWh
\* 1: 20 yen up to 120 kWh, 25 up to 300, 30 beyond, no fuel adjustment
\* 2: the product of the payloads above
\* 3: two steps with prices that are not whole yen
\* 4: one step that spans [0, infinity)
Tariffs ==
    <<[steps |-> <<TariffStep(2000, 0, 120), TariffStep(2500, 120, 300),
                   TariffStep(3000, 300, Unbounded)>>,
       fuel |-> 0, standing |-> 0],
      [steps |-> <<TariffStep(2000, 0, 2), TariffStep(2500, 2, 4),
                   TariffStep(3000, 4, Unbounded)>>,
       fuel |-> 150, standing |-> 2910],
      [steps |-> <<TariffStep(1995, 0, 1), TariffStep(3110, 1, Unbounded)>>,
       fuel |-> 5, standing |-> 0],
      [steps |-> <<TariffStep(2750, 0, Unbounded)>>,
       fuel |-> 155, standing |-> 2910]>>

\* the numeral "<yen>.<two digits>" of an amount in hundredths
Numeral(n) ==
    LET int == Digits(n \div 100) IN
    JChars((IF int = <<>> THEN <<48>> ELSE [i \in 1..Len(int) |-> 48 + int[i]])
               \o <<46, 48 + ((n % 100) \div 10), 48 + (n % 10)>>)

\* ElectricitySingleStepProduct: the query asks its consumptionCharges for
\* pricePerUnit only, so the charge has no stepStart and no stepEnd key
NoBounds == -2

SingleStepTariff ==
    [steps |-> <<TariffStep(2750, NoBounds, NoBounds)>>,
     fuel |-> 155, standing |-> 2910]

StepJson(st) ==
    IF st.start = NoBounds THEN JObj([pricePerUnit |-> Numeral(st.price)])
    ELSE Step(Numeral(st.price), JNum(st.start),
              IF st.end = Unbounded THEN JNull ELSE JNum(st.end))

\* the orders a list of n steps can arrive in
Orders(n) == {o \in [1..n -> 1..n] : \A i, j \in 1..n : o[i] = o[j] => i = j}

\* the product node of tariff t, its steps listed in the order o
TariffProduct(t, o) ==
    JObj([displayName |-> JText("Green Octopus"),
          standingCharges |-> JList(<<JObj([pricePerUnit |-> Numeral(t.standing)])>>),
          fuelCostAdjustment |-> JObj([pricePerUnit |-> Numeral(t.fuel)]),
          consumptionCharges |->
              JList([i \in 1..Len(t.steps) |-> StepJson(t.steps[o[i]])])])

\* the totals the cost is computed for, in hundredths of a kWh: zero, each
\* step boundary and its neighbours, and whole blocks of 50 kWh
KwhSamples(t) ==
    {0, 1} \cup {5000 * k : k \in 1..MaxKwhBlocks}
        \cup UNION { {100 * t.steps[i].start - 1, 100 * t.steps[i].start,
                      100 * t.steps[i].start + 1} :
                     i \in 2..Len(t.steps) }

\* further energy on top of a total: nothing, 0.01 kWh, 1 kWh, 50 kWh
KwhDeltas == {0, 1, 100, 5000}

\* a Decimal cost as an integer count of 1/10000 yen, where it is one
DecTenThousandths(r) ==
    IF r.ok /\ r.d.e >= -4 THEN OkN(SeqValue(Pad(r.d.c, r.d.e + 4), 0))
    ELSE IF r.ok THEN Err("inexact") ELSE Err(r.exc)

-----------------------------------------------------------------------------
(* The getters applied to inputs drawn from bounded sets *)

\* _calculate_cost_for_kwh, both copies, applied to a total and to a larger one
ApplyCostForKwh ==
    /\ calc_op = "idle"
    /\ \E id \in 1..Len(Tariffs) :
       \E o \in Orders(Len(Tariffs[id].steps)) :
       \E kwh \in KwhSamples(Tariffs[id]) :
       \E more \in KwhDeltas :
       \E product \in {TariffProduct(Tariffs[id], o)} :
          /\ calc_op' = "cost"
          /\ calc_in' = [tariff |-> id, order |-> o, kwh |-> kwh, more |-> more]
          /\ calc_out' =
                [cost |-> CalculateCostForKwh(kwh, product),
                 cost_more |-> CalculateCostForKwh(kwh + more, product),
                 est |-> DecTenThousandths(
                             EstimateCostForKwh(DecOfHundredths(kwh), product)),
                 est_more |-> DecTenThousandths(
                             EstimateCostForKwh(DecOfHundredths(kwh + more), product))]
    /\ UNCHANGED attrs /\ UNCHANGED mainVars

\* the tariffs the cost getters are read on: 0 is the single-step product
GetterTariff(id) == IF id = 0 THEN SingleStepTariff ELSE Tariffs[id]

\* month-to-date totals, in hundredths of a kWh
GetterKwhSamples == {0, 290, 430, 3159, 3630, 5000 * MaxKwhBlocks}

\* the dates the getters are read on: the last day of a month of 28, 29, 30
\* and 31 days, and two days inside a month
GetterDays ==
    {DaysFromCivil(2023, 2, 28), DaysFromCivil(2024, 2, 29),
     DaysFromCivil(2024, 4, 30), DaysFromCivil(2024, 3, 31),
     DaysFromCivil(2024, 3, 15), DaysFromCivil(2024, 1, 10)}

\* a snapshot whose month-to-date consumption on `today` is kwh: one reading
\* at noon (Tokyo) of the first of the month, and one in the month before
GetterSnapshot(t, kwh, today) ==
    LET first == CivilFromDays(FirstOfMonth(today))
        before == CivilFromDays(FirstOfMonth(today) - 1)
    IN Account(JNum(0), JObj([edges |-> JList(<<>>)]),
               JList(<<PropertyWith(
                   TariffProduct(t, [i \in 1..Len(t.steps) |-> i]),
                   <<Reading(JTimestamp(before.y, before.m, before.d, 3, 0, 0),
                             Numeral(775)),
                     Reading(JTimestamp(first.y, first.m, first.d, 3, 0, 0),
                             Numeral(kwh))>>)>>))

\* the two cost getters read on a snapshot
ApplyCostGetters ==
    /\ calc_op = "idle"
    /\ \E id \in 0..Len(Tariffs) :
       \E kwh \in GetterKwhSamples :
       \E today \in GetterDays :
       \E data \in {GetterSnapshot(GetterTariff(id), kwh, today)} :
          /\ calc_op' = "getters"
          /\ calc_in' = [tariff |-> id, kwh |-> kwh, today |-> today]
          /\ calc_out' = [cost |-> CurrentMonthCost(data, today),
                          estimate |-> MonthlyEstimate(data, today)]
    /\ UNCHANGED attrs /\ UNCHANGED mainVars

\* an instant by its UTC calendar fields
Instant(y, mo, d, h, mi) == [y |-> y, mo |-> mo, d |-> d, h |-> h, mi |-> mi]

\* half-hourly readings on both sides of Tokyo midnight at the turn of a
\* month, of a year and of a leap day; the values are in hundredths of a kWh
\* and no two sets of them have the same sum
ReadingPool ==
    <<[at |-> Instant(2023, 11, 30, 14, 30), value |-> 10],
      [at |-> Instant(2023, 11, 30, 15, 30), value |-> 20],
      [at |-> Instant(2023, 12, 30, 15, 30), value |-> 40],
      [at |-> Instant(2023, 12, 31, 14, 30), value |-> 80],
      [at |-> Instant(2023, 12, 31, 15, 30), value |-> 160],
      [at |-> Instant(2024, 1, 14, 15, 30), value |-> 320],
      [at |-> Instant(2024, 2, 29, 14, 30), value |-> 640],
      [at |-> Instant(2024, 2, 29, 15, 30), value |-> 1280]>>

\* the instants the getters are read at: 00:10 on 1 January, 09:00 on 15
\* January, 23:50 on 29 February, 08:00 on 1 March, 01:00 on 2 March (Tokyo)
ReadInstants ==
    {Instant(2023, 12, 31, 15, 10), Instant(2024, 1, 15, 0, 0),
     Instant(2024, 2, 29, 14, 50), Instant(2024, 2, 29, 23, 0),
     Instant(2024, 3, 1, 16, 0)}

\* the readings chosen from the pool, in the pool's order
ReadingsOf(chosen) ==
    LET Chosen(i) == i \in chosen
        idx == SelectSeq([i \in 1..Len(ReadingPool) |-> i], Chosen)
    IN [k \in 1..Len(idx) |->
           LET r == ReadingPool[idx[k]] IN
           Reading(JTimestamp(r.at.y, r.at.mo, r.at.d, r.at.h, r.at.mi, 0),
                   Numeral(r.value))]

\* the four consumption getters read on a sequence of readings at an instant
ApplyConsumptionGetters ==
    /\ calc_op = "idle"
    /\ \E chosen \in SUBSET (1..Len(ReadingPool)) :
       \E at \in ReadInstants :
       \E data \in {Account(JNum(0), JObj([edges |-> JList(<<>>)]),
                            JList(<<Property(ReadingsOf(chosen))>>))} :
       \E today \in {TokyoDate(UtcMinute(at.y, at.mo, at.d, at.h, at.mi))} :
          /\ Cardinality(chosen) <= MaxReadings
          /\ calc_op' = "sums"
          /\ calc_in' = [chosen |-> chosen, at |-> at]
          /\ calc_out' = [today |-> TodayConsumption(data, today),
                          yesterday |-> YesterdayConsumption(data, today),
                          current_month |-> CurrentMonthConsumption(data, today),
                          last_month |-> LastMonthConsumption(data, today)]
    /\ UNCHANGED attrs /\ UNCHANGED mainVars

\* the __typename tags a bill may carry; "" stands for a bill without the key
BillTags ==
    {"PeriodBasedDocumentType", "StatementType", "InvoiceType", "RefundType", ""}

\* the bill list of a snapshot: a list with one bill, an empty list, a null
\* in place of the connection, or no "bills" key at all
BillLists == {"bill", "empty", "null", "absent"}

\* a bill node with the tag, and with grossAmount 5000 and / or
\* totalCharges.grossTotal 7200 where asked for
BillNode(tag, hasAmount, hasTotal) ==
    LET keys == {"id"} \cup (IF tag = "" THEN {} ELSE {"__typename"})
                    \cup (IF hasAmount THEN {"grossAmount"} ELSE {})
                    \cup (IF hasTotal THEN {"totalCharges"} ELSE {})
    IN JObj([k \in keys |->
                CASE k = "id" -> JText("1")
                  [] k = "__typename" -> JText(tag)
                  [] k = "grossAmount" -> JNum(5000)
                  [] k = "totalCharges" -> JObj([grossTotal |-> JNum(7200)])])

BillSnapshot(list, node) ==
    CASE list = "bill" ->
            Account(JNum(0), JObj([edges |-> JList(<<JObj([node |-> node])>>)]),
                    JList(<<>>))
      [] list = "empty" -> Account(JNum(0), JObj([edges |-> JList(<<>>)]), JList(<<>>))
      [] list = "null" -> Account(JNum(0), JNull, JList(<<>>))
      [] list = "absent" -> JObj([number |-> JText("A-1"), balance |-> JNum(0)])

\* the last-bill getter read on a snapshot
ApplyLastBill ==
    /\ calc_op = "idle"
    /\ \E list \in BillLists, tag \in BillTags, hasAmount, hasTotal \in BOOLEAN :
       \E data \in {BillSnapshot(list, BillNode(tag, hasAmount, hasTotal))} :
          /\ calc_op' = "bill"
          /\ calc_in' = [list |-> list, tag |-> tag, hasAmount |-> hasAmount,
                         hasTotal |-> hasTotal]
          /\ calc_out' = LastBill(data)
    /\ UNCHANGED attrs /\ UNCHANGED mainVars

\* get_midnight_in_tokyo(date): the instant, in UTC minutes
MidnightInTokyo(day) == day * 1440 - TOKYO_OFFSET

\* a window that starts with the current month
QueryStartThisMonth(t) == MidnightInTokyo(FirstOfMonth(TokyoDate(t)))

\* async_update_data: start_of_last_month, for now = t in UTC minutes
QueryStart(t) ==
    LET start_of_current_month == MidnightInTokyo(FirstOfMonth(TokyoDate(t)))
        last_day_of_prev_month == start_of_current_month - 1440
    IN MidnightInTokyo(FirstOfMonth(TokyoDate(last_day_of_prev_month)))

\* .isoformat() of a Tokyo-aware datetime: local fields and the offset
IsoFormat(utcMinute) ==
    LET local == utcMinute + TOKYO_OFFSET
        c == CivilFromDays(local \div 1440)
        m == local % 1440
    IN JTimestamp(c.y, c.m, c.d, m \div 60, m % 60, TOKYO_OFFSET)

\* async_get_data: the variables startTime and endTime of the query
QueryVariables(t) ==
    [startTime |-> IsoFormat(QueryStart(t)), endTime |-> IsoFormat(t)]

\* the instants a refresh starts at: noon of every day of January 2024, the
\* first minute of a month and the minute before it, and the instants above
RefreshInstants ==
    {Instant(2024, 1, d, 3, 0) : d \in 1..31}
        \cup {Instant(2023, 12, 31, 15, 0), Instant(2024, 2, 29, 15, 0),
              Instant(2024, 2, 29, 14, 59), Instant(2024, 3, 31, 15, 0),
              Instant(2024, 3, 30, 15, 0)}
        \cup ReadInstants

\* async_update_data builds the query window for a refresh at an instant
ApplyQueryWindow ==
    /\ calc_op = "idle"
    /\ \E at \in RefreshInstants :
          /\ calc_op' = "window"
          /\ calc_in' = [at |-> at]
          /\ calc_out' = QueryVariables(UtcMinute(at.y, at.mo, at.d, at.h, at.mi))
    /\ UNCHANGED attrs /\ UNCHANGED mainVars

\* the product entity read on a snapshot: its value and its attributes
ApplyTariffSummary ==
    /\ calc_op = "idle"
    /\ \E id \in 0..Len(Tariffs) :
       \E o \in Orders(Len(GetterTariff(id).steps)) :
       \E data \in {Account(JNum(0), JObj([edges |-> JList(<<>>)]),
                            JList(<<PropertyWith(TariffProduct(GetterTariff(id), o),
                                                 <<>>)>>))} :
          /\ calc_op' = "summary"
          /\ calc_in' = [tariff |-> id, order |-> o]
          /\ calc_out' = [value |-> Product(data),
                          attributes |-> ProductAttributes(data)]
    /\ UNCHANGED attrs /\ UNCHANGED mainVars

\* the entities whose native_value stores attributes
CostEntities == {"current_month_cost", "monthly_estimate"}

\* the snapshots the cost entities are read on, one after the other: the
\* stepped product with 4.30 kWh and with 31.59 kWh, and the single-step one
EntityTariffs == {0, 2}
EntityKwh == {430, 3159}

\* the host reads the value of one of the two cost entities; the entity is
\* the same object from one read to the next
ReadCostEntity ==
    /\ calc_op = "idle"
    /\ \E entity \in CostEntities, id \in EntityTariffs, kwh \in EntityKwh :
       \E today \in {DaysFromCivil(2024, 3, 15)} :
       \E data \in {GetterSnapshot(GetterTariff(id), kwh, today)} :
          /\ calc_op' = "read"
          /\ calc_in' = [entity |-> entity, tariff |-> id, kwh |-> kwh,
                         today |-> today]
          /\ calc_out' = NativeValue(entity, data, today)
          /\ attrs' = [attrs EXCEPT ![entity] =
                          IF entity = "current_month_cost"
                          THEN CostAttributesAfterRead(data, today, attrs[entity])
                          ELSE EstimateAttributesAfterRead(data, today, attrs[entity])]
    /\ UNCHANGED mainVars

\* the result has been consumed
CalcDone ==
    /\ calc_op # "idle"
    /\ calc_op' = "idle" /\ calc_in' = <<>> /\ calc_out' = <<>>
    /\ UNCHANGED attrs /\ UNCHANGED mainVars

CalcNext ==
    \/ ApplyCostForKwh
    \/ ApplyCostGetters
    \/ ApplyConsumptionGetters
    \/ ApplyLastBill
    \/ ApplyQueryWindow
    \/ ApplyTariffSummary
    \/ ReadCostEntity
    \/ CalcDone

CalcSpec == Init /\ [][CalcNext]_vars

-----------------------------------------------------------------------------
(* Vocabulary of the properties *)

\* A handler resumes with the answer on the wire (and is not cancelled).
Handled == pending /\ ~pending' /\ last_exc' # "TimeoutError"

\* A call of get_account_number or get_data starts.
CallStarts == phase' # phase /\ phase' \in {"acct", "first_refresh", "refresh"}

\* A refresh cycle ends.
RefreshEnds == InRefresh /\ ~InRefresh'

\* A JWT-expiry signal in the errors array: the message substring or the
\* error code KT-CT-1124.
JwtExpirySignal(r) ==
    /\ r.net = "ok" /\ r.errs.has
    /\ \E i \in 1..Len(r.errs.list) :
          \/ r.errs.list[i].message
                \in {"JWT has expired", "Signature of the JWT has expired"}
          \/ r.errs.list[i].errorCode = "KT-CT-1124"

CallFailsAtOnce ==
    /\ inflight' = NoRequest
    /\ nAuth' = nAuth /\ nReq' = nReq
    /\ token' = token /\ token_expiry' = token_expiry

-----------------------------------------------------------------------------
(* C1: the token check made when a call starts re-authenticates if and only *)
(* if no token is held or the clock is at or past issue time + 50 minutes;  *)
(* otherwise the request goes out with the held token; and every            *)
(* authenticated request is sent with a token whose stored expiry lies      *)
(* after the time of sending.                                               *)
C1_TokenCheck ==
    [][ /\ CallStarts =>
             /\ (inflight'.kind = "auth") <=>
                   (token = NoToken \/ now >= issuedAt + 50)
             /\ inflight'.kind # "auth" =>
                   (inflight'.auth = token /\ nAuth' = 0 /\ token' = token)
        /\ inflight'.kind \in {"acct", "data"} =>
             /\ inflight'.auth # NoToken
             /\ inflight'.auth = token'
             /\ token_expiry' = issuedAt' + 50
             /\ inflight'.at < token_expiry'
      ]_vars

\* a refresh 49 minutes after the authenticate went out with the held token
C1_Witness ==
    /\ phase = "refresh" /\ inflight.kind = "data"
    /\ nAuth = 0 /\ inflight.at = issuedAt + 49

(* C2: in get_data started with a locally valid token, a JWT-expiry error   *)
(* on attempt 1 leads to one re-authentication; if attempt 2 then succeeds  *)
(* the call returns the account subtree of the attempt-2 response, and if   *)
(* attempt 2 signals expiry again the call fails with the explicit error;   *)
(* there is never a third data request nor a second retry-triggered         *)
(* re-authentication.                                                       *)
C2_RetryOnce ==
    [][ /\ (Handled /\ inflight.kind = "data" /\ attempt = 0
              /\ JwtExpirySignal(response)) =>
             (inflight'.kind = "auth" /\ nRetryAuth' = 1 /\ nReq' = nReq)
        /\ (Handled /\ inflight.kind = "data" /\ attempt = 1 /\ nAuth = nRetryAuth
              /\ JwtExpirySignal(first_resp) /\ SaysSuccess(response)) =>
             /\ last_refresh' = "ok" /\ coordinator_data' = response.body
             /\ inflight' = NoRequest
             /\ nAuth' = 1 /\ nRetryAuth' = 1 /\ nReq' = 2
        /\ (Handled /\ inflight.kind = "data" /\ attempt = 1
              /\ JwtExpirySignal(first_resp) /\ JwtExpirySignal(response)) =>
             /\ last_exc' = "Exception" /\ last_refresh' = "failed"
             /\ inflight' = NoRequest
             /\ nRetryAuth' = 1 /\ nReq' = 2
        /\ CallKind' = "data" => (nReq' <= 2 /\ nRetryAuth' <= 1)
      ]_vars

\* a refresh succeeded on attempt 2 after a JWT-expiry error on attempt 1
C2_Witness ==
    /\ phase = "loaded" /\ last_refresh = "ok"
    /\ attempt = 1 /\ retry_cause = "jwt"
    /\ nAuth = 1 /\ nRetryAuth = 1 /\ nReq = 2

C4_NonExpiryErrorFails ==
    [][ (Handled /\ inflight.kind = "data" /\ response.net = "ok"
           /\ response.errs.has /\ ~JwtExpirySignal(response)) =>
          /\ CallFailsAtOnce
          /\ last_exc' = "Exception" /\ last_refresh' = "failed"
          /\ coordinator_data' = coordinator_data
      ]_vars

\* a periodic refresh failed on its first response, which carried errors
C4_Witness ==
    /\ phase = "loaded" /\ last_refresh = "failed"
    /\ last_exc = "Exception" /\ attempt = 0 /\ nAuth = 0 /\ nReq = 1

(* C5 as stated: in get_account_number, after a JWT-expiry signal and the   *)
(* re-authentication, a retry response with a well-formed account list      *)
(* makes the call return its first account's number.                        *)
C5_Original ==
    [][ (Handled /\ inflight.kind = "acct" /\ attempt = 1
           /\ response.net = "ok" /\ response.body # 0) =>
          (account_number' = response.body /\ phase' = "first_refresh")
      ]_vars

\* what a presented value shows: unavailable, a number, or a text
Shown(o) ==
    IF o.kind = "decimal" THEN <<"decimal", o.n, "">>
    ELSE IF o.kind = "json"
    THEN IF o.v.t = "num" THEN <<"number", o.v.n, "">>
         ELSE IF o.v.t = "str" THEN <<"text", 0, o.v.s>>
         ELSE <<"other", 0, "">>
    ELSE <<o.kind, 0, o.exc>>

\* a refresh has succeeded at some time
EverRefreshed == phase \in {"loaded", "refresh"} /\ sensors_created

(* C6: the snapshot the values are computed from is the complete payload of *)
(* the most recent successful refresh: a refresh that fails or times out    *)
(* leaves the snapshot and the date the values are computed from as they    *)
(* were (and so every presented value), the snapshot                        *)
(* changes only when a refresh succeeds and then becomes the body of that   *)
(* error-free response, a payload sent beside an errors array is never the  *)
(* snapshot, and until a refresh has succeeded every value is unavailable.  *)
C6_Snapshot ==
    [][ /\ (RefreshEnds /\ last_refresh' # "ok") =>
             /\ coordinator_data' = coordinator_data
             /\ Today(now') = Today(now)
        /\ (RefreshEnds /\ last_refresh' = "ok") =>
             /\ Handled /\ response = Reply(200, NoErrors, coordinator_data')
             /\ coordinator_data' \in CompletePayloads
        /\ coordinator_data' # coordinator_data =>
             (RefreshEnds /\ last_refresh' = "ok")
        /\ coordinator_data' \notin PartialPayloads
        /\ ~EverRefreshed' =>
             /\ coordinator_data' = NoData
             /\ \A s \in Sensors : Presented(s)'.kind = "none"
      ]_vars

\* a refresh timed out after an earlier one had succeeded: the values are
\* still those of the earlier payload
C6_Witness ==
    /\ phase = "loaded" /\ last_refresh = "failed" /\ last_exc = "TimeoutError"
    /\ coordinator_data = 1
    /\ Shown(Presented("current_month_consumption")) = <<"decimal", 430, "">>

(* C7: every refresh that fails, whatever the cause, raises exactly one     *)
(* UpdateFailed and nothing else; a transport error, a failed               *)
(* re-authentication and the timeout each end the refresh so, and a         *)
(* transport error is followed by no further request of that refresh.       *)
C7_SingleSignal ==
    [][ /\ RefreshEnds =>
             \/ last_refresh' = "ok" /\ signals' = 0 /\ last_exc' = "none"
             \/ /\ last_refresh' = "failed" /\ signals' = 1 /\ ~escaped'
                /\ last_exc' # "none"
        /\ (InRefresh /\ Handled
              /\ \/ response.net = "err"
                 \/ inflight.kind = "auth" /\ GetTokenRaises(response) # "none") =>
             /\ RefreshEnds /\ last_refresh' = "failed" /\ signals' = 1
             /\ inflight' = NoRequest /\ nAuth' = nAuth /\ nReq' = nReq
        /\ (InRefresh /\ last_exc' = "TimeoutError") =>
             (RefreshEnds /\ last_refresh' = "failed" /\ signals' = 1 /\ ~escaped')
        /\ InRefresh' => signals' = 0
      ]_vars

\* a periodic refresh exceeded the timeout and was reported once
C7_Witness ==
    /\ phase = "loaded" /\ last_refresh = "failed"
    /\ last_exc = "TimeoutError" /\ signals = 1

(* C8 as stated: whatever the shape of the snapshot (a missing key, an     *)
(* empty list, a null, an unparsable field), reading any of the ten         *)
(* presented values yields a value or "unavailable": it neither raises nor  *)
(* returns a placeholder.                                                   *)
C8_Original ==
    sensors_created =>
        \A s \in Sensors :
            /\ Presented(s).kind # "raise"
            /\ Shown(Presented(s)) # <<"text", 0, "Unknown">>

(* C9: a periodic refresh that follows one which failed on authentication   *)
(* or on two expiry signals, and in which the provider cooperates (issues a *)
(* token when asked, and answers the data query), succeeds and installs the *)
(* payload of the last response, whatever token and expiry were left.       *)
C9_Recovers ==
    [][ /\ (phase = "refresh" /\ last_failure \in {"auth", "expiry"}
              /\ cooperative /\ Handled) =>
             /\ ~RefreshEnds => inflight'.kind # "none"
             /\ RefreshEnds =>
                   /\ last_refresh' = "ok" /\ phase' = "loaded"
                   /\ coordinator_data' = response.body
      ]_vars

\* a refresh succeeded right after one that failed on two expiry signals
C9_Witness ==
    /\ phase = "loaded" /\ last_refresh = "ok" /\ last_failure = "expiry"

(* C10: when the account number cannot be obtained at setup (authentication *)
(* failure, transport error, or no account in the response), setup aborts:  *)
(* no coordinator, no data query, no entities, then or later.               *)
C10_SetupAborts ==
    [][ /\ (phase = "acct" /\ Handled
              /\ \/ inflight.kind = "auth" /\ GetTokenRaises(response) # "none"
                 \/ inflight.kind = "acct" /\ response.net = "err"
                 \/ /\ inflight.kind = "acct" /\ response.body = 0
                    /\ (attempt = 1 \/ ~response.errs.has)) =>
             phase' = "aborted"
        /\ phase' = "aborted" =>
             /\ ~coordinator_created' /\ ~data_query_sent' /\ ~sensors_created'
             /\ account_number' = 0 /\ inflight' = NoRequest
        /\ phase = "aborted" => phase' = "aborted"
      ]_vars

\* setup aborted because the response listed no account
C10_Witness == phase = "aborted" /\ last_exc = "Exception"

(* C20: in get_data and get_account_number the request sent after a        *)
(* re-authentication that an expiry signal triggered carries the token     *)
(* just obtained, never the token that was rejected; every authenticated   *)
(* request carries the client's current token; and the token request       *)
(* carries no authorization header.                                        *)
C20_FreshHeader ==
    [][ /\ (Handled /\ inflight.kind = "auth" /\ authFrom = "retry"
              /\ inflight'.kind \in {"acct", "data"}) =>
             /\ inflight'.auth = StoredToken(response)
             /\ inflight'.auth # token
             /\ inflight'.auth # NoToken
        /\ inflight'.kind \in {"acct", "data"} => inflight'.auth = token'
        /\ inflight'.kind = "auth" => inflight'.auth = NoToken
      ]_vars

\* the data query is being retried with the second token, after the first
\* one was rejected
C20_Witness ==
    /\ inflight.kind = "data" /\ attempt = 1 /\ nRetryAuth = 1
    /\ first_resp.net = "ok" /\ inflight.auth = 2 /\ token = 2

\* the energy of a total that falls inside the step [start, end)
Overlap(total, start, end) ==
    LET top == IF end = Unbounded \/ total <= 100 * end THEN total
               ELSE 100 * end IN
    IF top > 100 * start THEN top - 100 * start ELSE 0

\* the sum over the steps of price x energy inside the step, in 1/10000 yen
RECURSIVE StepSum(_, _)
StepSum(steps, total) ==
    IF steps = <<>> THEN 0
    ELSE Head(steps).price * Overlap(total, Head(steps).start, Head(steps).end)
             + StepSum(Tail(steps), total)

(* C11: for a tariff whose steps partition [0, infinity) and a total of at  *)
(* least zero, cost-for-kWh is the sum over the steps of price x the energy *)
(* inside the step plus total x fuel adjustment, whatever order the steps   *)
(* arrive in and without the standing charge; it is 0 for 0 kWh, and 3150   *)
(* yen for 150 kWh on steps (0,120,20), (120,300,25), (300,-,30) without     *)
(* fuel adjustment.                                                         *)
C11_CostForKwh ==
    calc_op = "cost" =>
        LET t == Tariffs[calc_in.tariff] IN
        /\ calc_out.cost =
               OkN(StepSum(t.steps, calc_in.kwh) + calc_in.kwh * t.fuel)
        /\ calc_in.kwh = 0 => calc_out.cost = OkN(0)
        /\ (calc_in.tariff = 1 /\ calc_in.kwh = 15000) =>
               calc_out.cost = OkN(31500000)

\* 150 kWh on the first tariff, its steps arriving highest first
C11_Witness ==
    /\ calc_op = "cost" /\ calc_in.tariff = 1 /\ calc_in.kwh = 15000
    /\ calc_in.order = <<3, 2, 1>>
    /\ calc_out.cost = OkN(31500000)

(* C12: for a valid step set with non-negative prices and fuel adjustment,  *)
(* cost-for-kWh (either copy) never decreases when the total grows, and at  *)
(* a step boundary further energy inside the next step costs exactly that   *)
(* step's price plus the fuel adjustment per kWh, as the last 0.01 kWh      *)
(* below the boundary costs the price of the step below: no jump.           *)
C12_Monotone ==
    calc_op = "cost" =>
        LET t == Tariffs[calc_in.tariff]
            kwh == calc_in.kwh
            more == calc_in.more
            Inside(i) == \/ t.steps[i].end = Unbounded
                         \/ kwh + more <= 100 * t.steps[i].end
        IN /\ calc_out.cost.ok /\ calc_out.cost_more.ok
           /\ calc_out.cost.n <= calc_out.cost_more.n
           /\ calc_out.est = calc_out.cost
           /\ calc_out.est_more = calc_out.cost_more
           /\ \A i \in 2..Len(t.steps) :
                 /\ (kwh = 100 * t.steps[i].start /\ Inside(i)) =>
                       calc_out.cost_more.n - calc_out.cost.n
                           = more * (t.steps[i].price + t.fuel)
                 /\ (kwh = 100 * t.steps[i].start - 1 /\ more = 1) =>
                       calc_out.cost_more.n - calc_out.cost.n
                           = t.steps[i - 1].price + t.fuel

\* one kWh on top of 120 kWh, the boundary of the first tariff's second step
C12_Witness ==
    /\ calc_op = "cost" /\ calc_in.tariff = 1
    /\ calc_in.kwh = 12000 /\ calc_in.more = 100
    /\ calc_out.cost_more.n - calc_out.cost.n = 250000
    /\ calc_out.est_more.n - calc_out.est.n = 250000

\* the last day of the month `day` lies in
IsLastDayOfMonth(day) ==
    CivilFromDays(day).d = DaysInMonth(CivilFromDays(day).y, CivilFromDays(day).m)

(* C13 as stated: for a product with a single consumption charge that       *)
(* carries only a price, current-month cost and monthly estimate are        *)
(* available, and the cost is consumption x price + consumption x fuel      *)
(* adjustment + standing charge x days elapsed.                             *)
C13_Original ==
    (calc_op = "getters" /\ calc_in.tariff = 0) =>
        LET t == SingleStepTariff
            days == CivilFromDays(calc_in.today).d
        IN /\ calc_out.cost =
                  ReturnsDecimal(RoundHalfEven(
                      calc_in.kwh * (t.steps[1].price + t.fuel)
                          + t.standing * days * 100, 100))
           /\ calc_out.estimate.kind = "decimal"

(* C15 as stated: on the last day of a month (days elapsed = days in the    *)
(* month) the monthly estimate equals the current-month cost, for every     *)
(* snapshot.                                                                *)
C15_Original ==
    (calc_op = "getters" /\ IsLastDayOfMonth(calc_in.today)) =>
        calc_out.estimate = calc_out.cost

\* the calendar by its rules: the length of a month
MonthLength(y, m) ==
    IF m = 2
    THEN IF (y % 4 = 0 /\ y % 100 # 0) \/ y % 400 = 0 THEN 29 ELSE 28
    ELSE IF m \in {4, 6, 9, 11} THEN 30 ELSE 31

NextCivil(c) ==
    IF c.d < MonthLength(c.y, c.m) THEN [y |-> c.y, m |-> c.m, d |-> c.d + 1]
    ELSE IF c.m < 12 THEN [y |-> c.y, m |-> c.m + 1, d |-> 1]
    ELSE [y |-> c.y + 1, m |-> 1, d |-> 1]

PrevCivil(c) ==
    IF c.d > 1 THEN [y |-> c.y, m |-> c.m, d |-> c.d - 1]
    ELSE IF c.m > 1 THEN [y |-> c.y, m |-> c.m - 1, d |-> MonthLength(c.y, c.m - 1)]
    ELSE [y |-> c.y - 1, m |-> 12, d |-> 31]

\* the Tokyo calendar date of a UTC instant: nine hours later
LocalCivil(at) ==
    IF at.h * 60 + at.mi + 9 * 60 >= 24 * 60
    THEN NextCivil([y |-> at.y, m |-> at.mo, d |-> at.d])
    ELSE [y |-> at.y, m |-> at.mo, d |-> at.d]

\* whether the local date r lies in the period, for the local date t of now
LocalInPeriod(period, r, t) ==
    CASE period = "today" -> r = t
      [] period = "yesterday" -> r = PrevCivil(t)
      [] period = "current_month" -> r.y = t.y /\ r.m = t.m
      [] period = "last_month" ->
            IF t.m = 1 THEN r.y = t.y - 1 /\ r.m = 12
            ELSE r.y = t.y /\ r.m = t.m - 1

\* the sum of the chosen readings whose local date lies in the period
ExpectedSum(period, chosen, at) ==
    LET f[i \in 0..Len(ReadingPool)] ==
            IF i = 0 THEN 0
            ELSE f[i - 1]
                 + (IF /\ i \in chosen
                       /\ LocalInPeriod(period, LocalCivil(ReadingPool[i].at),
                                        LocalCivil(at))
                    THEN ReadingPool[i].value ELSE 0)
    IN f[Len(ReadingPool)]

(* C14: for every reading sequence and every now, each of today,            *)
(* yesterday, current-month and last-month consumption is the sum of        *)
(* exactly the readings whose start, taken nine hours later (Tokyo), has a  *)
(* calendar date in the period; a reading that starts at 15:30 UTC on day D *)
(* counts under Tokyo day D+1, and in January the last month is December of *)
(* the year before.                                                         *)
C14_PeriodSums ==
    calc_op = "sums" =>
        /\ \A period \in DOMAIN calc_out :
               calc_out[period] =
                   ReturnsDecimal(ExpectedSum(period, calc_in.chosen, calc_in.at))
        /\ (calc_in.at = Instant(2023, 12, 31, 15, 10) /\ calc_in.chosen = {3, 4, 5}) =>
               /\ calc_out.today.n = 160 /\ calc_out.yesterday.n = 120
               /\ calc_out.last_month.n = 120 /\ calc_out.current_month.n = 160

\* at 00:10 on 1 January (Tokyo): the reading of 31 December 15:30 UTC is
\* today's and January's, the two before it are yesterday's and December's
C14_Witness ==
    /\ calc_op = "sums" /\ calc_in.at = Instant(2023, 12, 31, 15, 10)
    /\ calc_in.chosen = {3, 4, 5}
    /\ calc_out.today = ReturnsDecimal(160)
    /\ calc_out.yesterday = ReturnsDecimal(120)
    /\ calc_out.last_month = ReturnsDecimal(120)

(* C16: the last-bill amount is determined by the bill's __typename alone:  *)
(* PeriodBasedDocumentType and StatementType give totalCharges.grossTotal,  *)
(* InvoiceType gives grossAmount, whatever other amount the bill carries;   *)
(* an unrecognised or missing tag, and an empty or absent bill list, give   *)
(* unavailable.  An InvoiceType bill with grossAmount 5000 gives 5000, a    *)
(* StatementType bill with grossTotal 7200 gives 7200.                      *)
C16_LastBill ==
    calc_op = "bill" =>
        LET i == calc_in IN
        calc_out =
            IF i.list # "bill" THEN ReturnsNone
            ELSE IF i.tag \in {"PeriodBasedDocumentType", "StatementType"}
            THEN IF i.hasTotal THEN ReturnsJson(JNum(7200)) ELSE ReturnsNone
            ELSE IF i.tag = "InvoiceType"
            THEN IF i.hasAmount THEN ReturnsJson(JNum(5000)) ELSE ReturnsNone
            ELSE ReturnsNone

\* an InvoiceType bill that carries both amounts: the value is grossAmount
C16_Witness ==
    /\ calc_op = "bill" /\ calc_in.list = "bill" /\ calc_in.tag = "InvoiceType"
    /\ calc_in.hasAmount /\ calc_in.hasTotal
    /\ calc_out = ReturnsJson(JNum(5000))

\* the first day of the month before the month of the local date t
FirstOfPreviousMonth(t) ==
    IF t.m = 1 THEN [y |-> t.y - 1, m |-> 12, d |-> 1]
    ELSE [y |-> t.y, m |-> t.m - 1, d |-> 1]

(* C19: for a refresh at any now, on any day of January and on the first    *)
(* day of a month too, the data query starts at Tokyo midnight of day 1 of  *)
(* the month before the current Tokyo month and ends at now, so every       *)
(* reading that yesterday's and last month's values need lies in the        *)
(* window.                                                                  *)
C19_QueryWindow ==
    calc_op = "window" =>
        LET at == calc_in.at
            today == LocalCivil(at)
            first == FirstOfPreviousMonth(today)
            start == FromIsoFormat(calc_out.startTime)
            end == FromIsoFormat(calc_out.endTime)
        IN /\ calc_out.startTime =
                  JTimestamp(first.y, first.m, first.d, 0, 0, TOKYO_OFFSET)
           /\ end = OkN(UtcMinute(at.y, at.mo, at.d, at.h, at.mi))
           /\ start.ok /\ start.n <= end.n
           /\ \A i \in 1..Len(ReadingPool) :
                 LET r == ReadingPool[i].at IN
                 (\E period \in {"yesterday", "last_month"} :
                     LocalInPeriod(period, LocalCivil(r), today)) =>
                   /\ start.n <= UtcMinute(r.y, r.mo, r.d, r.h, r.mi)
                   /\ UtcMinute(r.y, r.mo, r.d, r.h, r.mi) <= end.n

\* a refresh at 00:10 on 1 January 2024 (Tokyo): the window starts at
\* midnight of 1 December 2023
C19_Witness ==
    /\ calc_op = "window" /\ calc_in.at = Instant(2023, 12, 31, 15, 10)
    /\ calc_out.startTime = JTimestamp(2023, 12, 1, 0, 0, TOKYO_OFFSET)
    /\ calc_out.endTime = JTimestamp(2024, 1, 1, 0, 10, TOKYO_OFFSET)

\* whether the tariff has one consumption charge without step bounds
Unstepped(t) == Len(t.steps) = 1 /\ t.steps[1].start = NoBounds

(* C17 as stated: the tariff summary always carries the display name, the   *)
(* standing charge and the fuel adjustment of the snapshot, and besides     *)
(* them either a single unit rate, when the tariff has one consumption      *)
(* charge without step bounds, or one "(start~end): price" entry per step   *)
(* in ascending stepStart order.                                            *)
C17_Original ==
    calc_op = "summary" =>
        LET t == GetterTariff(calc_in.tariff)
            a == calc_out.attributes.attrs
            n == Len(t.steps)
        IN /\ calc_out.value = ReturnsJson(JText("Green Octopus"))
           /\ calc_out.attributes.kind = "attrs"
           /\ "standing_charge" \in DOMAIN a
           /\ a["standing_charge"] = Numeral(t.standing)
           /\ "fuel_cost_adjustment" \in DOMAIN a
           /\ a["fuel_cost_adjustment"] = Numeral(t.fuel)
           /\ IF Unstepped(t)
              THEN /\ DOMAIN a = {"standing_charge", "fuel_cost_adjustment", "unit_rate"}
                   /\ a["unit_rate"] = Numeral(t.steps[1].price)
              ELSE /\ DOMAIN a = {"standing_charge", "fuel_cost_adjustment"}
                                     \cup {StepKey(i) : i \in 1..n}
                   /\ \A i \in 1..n : a[StepKey(i)] = FormatStep(StepJson(t.steps[i]))

(* C18 as stated: reading a presented value is pure: it changes no state    *)
(* of the calculator that a later read can observe, so a read depends only  *)
(* on (snapshot, now) and not on the reads before it.                       *)
C18_Original ==
    [][calc_op' = "read" => attrs' = attrs]_vars

-----------------------------------------------------------------------------
\* the response handled is a token issued under HTTP 200 without errors
WellFormedToken(r) == r.net = "ok" /\ r.status < HTTP_ERROR_FLOOR /\ r.body > 0

(* C21: in every reachable state of the client, also after a failed or a   *)
(* timed-out authenticate, the token and its expiry are both unset or both *)
(* set by the same successful authentication; an authenticate that fails   *)
(* (error status or malformed payload) leaves the stored token and expiry  *)
(* exactly as they were, and a successful one replaces both together.      *)
C21_Original ==
    /\ [](/\ ((token = NoToken) <=> (token_expiry = NoExpiry))
          /\ (token # NoToken => token_expiry = NewExpiry(issuedAt)))
    /\ [][ /\ (inflight.kind = "auth" /\ ~WellFormedToken(response)) =>
                (token' = token /\ token_expiry' = token_expiry)
           /\ (inflight.kind = "auth" /\ Handled /\ WellFormedToken(response)) =>
                (token' = response.body /\ token_expiry' = NewExpiry(now))
           /\ (token' # token \/ token_expiry' # token_expiry) =>
                (inflight.kind = "auth" /\ Handled)
         ]_vars

====
